---- MODULE Spec2Model ----
(***************************************************************************)
(* Model of the Honeycomb tracing plugin: the span registry (sessionSpans, *)
(* phaseSpans, toolExecutions, pendingSubagentContext), the session and    *)
(* tool event handlers, and the TTL cleanup.  Two revisions of the plugin  *)
(* are in the repository and both are modelled:                            *)
(*   "8.4.1"  src/.opencode/plugins/honeycomb-tracing.ts                   *)
(*   "8.6.0"  src/unnamed/part_000 (lines 242-1132)                        *)
(* They share performTTLCleanup, cleanupPhaseSpan, the idle / error /      *)
(* message.part.updated / tool.execute.after handlers and differ in        *)
(* session.created and tool.execute.before.                                *)
(*                                                                         *)
(* Every handler is an async function without an await and the cleanup is  *)
(* a synchronous timer callback, so each runs to completion on the single  *)
(* JavaScript thread: one handler is one atomic action.                    *)
(*                                                                         *)
(* The message.updated handler writes message and token counters of the    *)
(* session record and attributes of its span only; it touches no Map and   *)
(* ends no span.  It is an action of SpecMsg alone.                        *)
(***************************************************************************)
EXTENDS Integers, Sequences, FiniteSets, TLC

VARIABLES
    version,                 \* PLUGIN_VERSION of the revision that is running
    now,                     \* Date.now(), in milliseconds
    spans,                   \* the spans that are started and not ended, by span id
    nSpans,                  \* number of spans the tracer has started
    exported,                \* the spans the last handler ended, in end() order,
                             \* each as Ended() of it
    misuse,                  \* "write" / "end" calls the last handler made on an
                             \* ended span (the tracer ignores them)
    sessionSpans,            \* Map<string, SessionData>
    phaseSpans,              \* Map<string, PhaseData>
    toolExecutions,          \* Map<string, ToolExecution>, keyed by call id
    pendingSubagentContext,  \* Map<string, SubagentContext>
    mainSessionId,           \* 8.6.0: id of the "main" session, "" for null
    threw,                   \* the last handler ended by throwing
    nCalls,                  \* number of call ids the host has issued
    cleanupInterval,         \* the interval timer is set (FALSE for null)
    HONEYCOMB_API_KEY        \* process.env.HONEYCOMB_API_KEY is set

vars == <<version, now, spans, nSpans, exported, misuse, sessionSpans, phaseSpans, toolExecutions,
          pendingSubagentContext, mainSessionId, threw, nCalls, cleanupInterval,
          HONEYCOMB_API_KEY>>

----------------------------------------------------------------------------
(* Bounds of the model *)

\* Spec, revision 8.4.1: the clock in cleanup intervals
MaxTicks == 2     \* the clock stops after this many steps
MaxSpans == 3     \* no handler runs that would start a span beyond this many
MaxCalls == 1     \* tool invocations the host makes
\* Spec, revision 8.6.0, which starts one more span for a parent it has no record of
LazyTicks == 0
LazySpans == 4
LazyCalls == 1
\* SpecTTL: revision 8.4.1 with a coarser clock that outruns every TTL
TtlTicks == 4
TtlSpans == 2
TtlCalls == 1
\* SpecPhase: the handlers that add or delete session and phase records, on
\* the clock of SpecTTL
PhaseTicks == 4
PhaseSpans == 3
\* SpecLive: a clock of two long steps, with the timer and the clock fair
LiveTicks == 2
LiveSpans == 2
LiveCalls == 1
\* SpecSeq: revision 8.4.1 with two tool invocations
SeqTicks == 1
SeqSpans == 2
SeqCalls == 2
\* SpecStop: revision 8.4.1 with the shutdown handler, on the clock of SpecTTL
StopTicks == 4
StopSpans == 2
StopCalls == 1
\* SpecMsg: revision 8.4.1 with message.updated
MsgTicks == 1
MsgSpans == 2
MsgCalls == 1
MsgMessages == 2  \* assistant messages counted in one session record
\* SpecPreview: revision 8.4.1 with tool arguments of any size
PreviewTicks == 1
PreviewSpans == 2
PreviewCalls == 1
LongLength == 201  \* characters of a long argument
\* SpecErrors: revision 8.4.1, one session whose tools fail one after another
ErrSpans == 1
ErrCalls == 51
\* SpecNoKey: revision 8.4.1 loaded without HONEYCOMB_API_KEY
NoKeyTicks == 10
NoKeySpans == 2
NoKeyCalls == 10
\* SpecAge: revision 8.4.1 with the clock in steps of the cleanup interval, up
\* to past SESSION_TTL_MS
AgeTicks == 7
AgeSpans == 2
AgeCalls == 1
\* SpecPair: one session that starts the task tool twice, and two children
PairSpans == 5
PairCalls == 2

(* Program constants *)

SESSION_TTL_MS == 30 * 60 * 1000
TOOL_TTL_MS == 5 * 60 * 1000
PENDING_CONTEXT_TTL_MS == 10 * 60 * 1000
CLEANUP_INTERVAL_MS == 5 * 60 * 1000

AGENT_PHASE_MAP ==
    [planner |-> "planning", builder |-> "implementation", reviewer |-> "review",
     debugger |-> "diagnosis", general |-> "work", explore |-> "exploration"]
    @@ ("beads-manager" :> "coordination")

Versions == {"8.4.1", "8.6.0"}

Bounds ==
    [version |-> "8.4.1", ticks |-> MaxTicks, spans |-> MaxSpans, calls |-> MaxCalls,
     step |-> CLEANUP_INTERVAL_MS]
LazyBounds ==
    [version |-> "8.6.0", ticks |-> LazyTicks, spans |-> LazySpans, calls |-> LazyCalls,
     step |-> CLEANUP_INTERVAL_MS]
LiveBounds ==
    [version |-> "8.4.1", ticks |-> LiveTicks, spans |-> LiveSpans, calls |-> LiveCalls,
     step |-> 4 * CLEANUP_INTERVAL_MS]
SeqBounds ==
    [version |-> "8.4.1", ticks |-> SeqTicks, spans |-> SeqSpans, calls |-> SeqCalls,
     step |-> CLEANUP_INTERVAL_MS]
MsgBounds ==
    [version |-> "8.4.1", ticks |-> MsgTicks, spans |-> MsgSpans, calls |-> MsgCalls,
     step |-> CLEANUP_INTERVAL_MS]
PreviewBounds ==
    [version |-> "8.4.1", ticks |-> PreviewTicks, spans |-> PreviewSpans,
     calls |-> PreviewCalls, step |-> CLEANUP_INTERVAL_MS]
ErrorsBounds ==
    [version |-> "8.4.1", ticks |-> 0, spans |-> ErrSpans, calls |-> ErrCalls,
     step |-> CLEANUP_INTERVAL_MS]
NoKeyBounds ==
    [version |-> "8.4.1", ticks |-> NoKeyTicks, spans |-> NoKeySpans,
     calls |-> NoKeyCalls, step |-> CLEANUP_INTERVAL_MS]
AgeBounds ==
    [version |-> "8.4.1", ticks |-> AgeTicks, spans |-> AgeSpans,
     calls |-> AgeCalls, step |-> CLEANUP_INTERVAL_MS]
PairBounds ==
    [version |-> "8.4.1", ticks |-> 0, spans |-> PairSpans, calls |-> PairCalls,
     step |-> CLEANUP_INTERVAL_MS]
PairLazyBounds ==
    [version |-> "8.6.0", ticks |-> 0, spans |-> PairSpans, calls |-> PairCalls,
     step |-> CLEANUP_INTERVAL_MS]
PhaseBounds ==
    [version |-> "8.4.1", ticks |-> PhaseTicks, spans |-> PhaseSpans, calls |-> 0,
     step |-> 2 * CLEANUP_INTERVAL_MS]
StopBounds ==
    [version |-> "8.4.1", ticks |-> StopTicks, spans |-> StopSpans, calls |-> StopCalls,
     step |-> 2 * CLEANUP_INTERVAL_MS]
TtlBounds ==
    [version |-> "8.4.1", ticks |-> TtlTicks, spans |-> TtlSpans, calls |-> TtlCalls,
     step |-> 2 * CLEANUP_INTERVAL_MS]

(* Inputs the host can send *)

SessionIds == {"u1", "u2"}
Tools == {"read", "task"}
SubagentTypes == {"worker"}
Descriptions == {"do X"}
ErrorMessages == {"boom"}
\* a title as its whitespace-separated tokens; <<>> is an absent title
Titles == {<<"root", "task">>, <<"@Planner", "subagent">>}

----------------------------------------------------------------------------
(* JavaScript Map: entries in insertion order *)

MapHas(m, k) == \E i \in 1..Len(m) : m[i].k = k
MapGet(m, k) == m[CHOOSE i \in 1..Len(m) : m[i].k = k].v
MapSet(m, k, v) ==
    IF MapHas(m, k)
    THEN [i \in 1..Len(m) |-> IF m[i].k = k THEN [k |-> k, v |-> v] ELSE m[i]]
    ELSE Append(m, [k |-> k, v |-> v])
\* Map.delete that deletes nothing
MapDeleteNothing(m, k) == m
MapDelete(m, k) == SelectSeq(m, LAMBDA e : e.k # k)
MapKeys(m) == {m[i].k : i \in 1..Len(m)}

----------------------------------------------------------------------------
(* The tracer: spans and span contexts.  A span context is a trace id and  *)
(* a span id; context.active() carries no span in a plugin handler, which  *)
(* NoCtx stands for.  A span started under NoCtx is the root of a new      *)
(* trace, otherwise it is a child of the context's span in its trace.      *)

NoCtx == [traceId |-> 0, spanId |-> 0]

NoAttrs ==
    [success |-> "unset", cleanup_reason |-> "", orphan_reason |-> "",
     lazy_created |-> FALSE, phase_name |-> "", agent_type |-> "",
     parent_id |-> "", task_description |-> "",
     error_name |-> "", error_message |-> "",
     total_count |-> -1, error_count |-> -1, executions |-> -1,
     agent_mode |-> "", model_id |-> "", provider_id |-> "",
     tokens_input |-> -1, tokens_output |-> -1, tokens_reasoning |-> -1,
     tokens_cache_read |-> -1, tokens_cache_write |-> -1,
     summary |-> "", errors_detail |-> << >>, title |-> << >>]

\* an ended span has left the tracer for the span processor
IsEnded(W, id) == id \notin DOMAIN W.spans

\* span.spanContext()
SpanContextOf(W, id) == [traceId |-> W.spans[id].traceId, spanId |-> id]

StartSpan(W, name, sessionId, parentCtx, attrs) ==
    LET id == W.nSpans + 1
        sp == [id |-> id,
               name |-> name,   \* <<kind, suffix>> for `kind:suffix`
               sessionId |-> sessionId,
               traceId |-> IF parentCtx.traceId = 0 THEN id ELSE parentCtx.traceId,
               parentSpanId |-> parentCtx.spanId,
               status |-> "UNSET",
               attrs |-> [k \in DOMAIN NoAttrs |->
                            IF k \in DOMAIN attrs THEN attrs[k] ELSE NoAttrs[k]],
               events |-> {}]
    IN  [W EXCEPT !.spans = (id :> sp) @@ @, !.nSpans = id]

\* span.setAttributes / setAttribute: ignored once the span has ended
SetAttrs(W, id, attrs) ==
    IF IsEnded(W, id) THEN [W EXCEPT !.misuse = @ \cup {"write"}]
    ELSE [W EXCEPT !.spans[id].attrs =
             [k \in DOMAIN @ |-> IF k \in DOMAIN attrs THEN attrs[k] ELSE @[k]]]

Event(name, tool, callId, seq) ==
    [name |-> name, tool |-> tool, callId |-> callId, seq |-> seq,
     args_preview |-> ""]

\* span.addEvent: ignored once the span has ended
AddEvent(W, id, e) ==
    IF IsEnded(W, id) THEN [W EXCEPT !.misuse = @ \cup {"write"}]
    ELSE [W EXCEPT !.spans[id].events = @ \cup {e}]

\* span.setStatus: ignored once the span has ended
SetStatus(W, id, code) ==
    IF IsEnded(W, id) THEN [W EXCEPT !.misuse = @ \cup {"write"}]
    ELSE [W EXCEPT !.spans[id].status = code]

\* span.end(): the span goes to the span processor; a second end() is ignored
EndSpan(W, id) ==
    IF IsEnded(W, id) THEN [W EXCEPT !.misuse = @ \cup {"end"}]
    ELSE [W EXCEPT !.exported = Append(@, W.spans[id]),
                   !.spans = [i \in DOMAIN @ \ {id} |-> @[i]]]

----------------------------------------------------------------------------
(* Pure helpers *)

\* the \w+ run a title token ends with, lower-cased
WordOf(tok) ==
    CASE tok = "@Planner" -> "planner"
      [] tok = "@planner" -> "planner"
      [] tok = "Worker"   -> "worker"
      [] OTHER            -> tok

IsSubagentWord(tok) == tok \in {"subagent", "Subagent", "subagents"}

\* title.match(/@?(\w+)\s+subagent/i): the first word followed by "subagent"
extractSubagentTypeFromTitle(title) ==
    IF \E i \in 1..(Len(title) - 1) : IsSubagentWord(title[i + 1])
    THEN LET i == CHOOSE j \in 1..(Len(title) - 1) :
                     /\ IsSubagentWord(title[j + 1])
                     /\ \A h \in 1..(j - 1) : ~IsSubagentWord(title[h + 1])
         IN  WordOf(title[i])
    ELSE ""

getPhaseForAgent(agentType) ==
    IF agentType \in DOMAIN AGENT_PHASE_MAP THEN AGENT_PHASE_MAP[agentType] ELSE "work"

\* counts is an object: its entries, in the order its keys were added
createToolAggregate ==
    [counts |-> << >>, errors |-> <<>>, totalDurationMs |-> 0,
     executions |-> 0]

\* counts[tool] || 0
countOfTool(counts, tool) == IF MapHas(counts, tool) THEN MapGet(counts, tool) ELSE 0

\* Object.values(counts).reduce((a, b) => a + b, 0)
RECURSIVE SumOver(_, _)
SumOver(f, S) ==
    IF S = {} THEN 0
    ELSE LET x == CHOOSE y \in S : TRUE IN f[x] + SumOver(f, S \ {x})

\* the number of tool names for the number of tool starts
totalToolCountUniqueTypes(counts) == Len(counts)

totalToolCount(counts) ==
    SumOver([i \in 1..Len(counts) |-> counts[i].v], 1..Len(counts))

\* Array.prototype.sort with (a, b) => b[1] - a[1], which is stable: the
\* entry goes behind every entry whose count is not smaller
RECURSIVE InsertByCount(_, _)
InsertByCount(sorted, e) ==
    IF sorted = << >> THEN <<e>>
    ELSE IF Head(sorted).v >= e.v
         THEN <<Head(sorted)>> \o InsertByCount(Tail(sorted), e)
         ELSE <<e>> \o sorted

RECURSIVE SortByCountDesc(_)
SortByCountDesc(entries) ==
    IF entries = << >> THEN << >>
    ELSE InsertByCount(SortByCountDesc(SubSeq(entries, 1, Len(entries) - 1)),
                       entries[Len(entries)])

\* Array.prototype.join(",")
RECURSIVE JoinComma(_)
JoinComma(items) ==
    IF items = << >> THEN ""
    ELSE IF Len(items) = 1 THEN items[1]
    ELSE items[1] \o "," \o JoinComma(Tail(items))

\* `${tool}:${count}`
summaryItem(tool, count) == tool \o ":" \o ToString(count)

createToolsSummary(counts) ==
    LET sorted == SortByCountDesc(counts)
    IN  JoinComma([i \in 1..Len(sorted) |-> summaryItem(sorted[i].k, sorted[i].v)])

\* toolsSummary || "none"
summaryOrNone(counts) ==
    IF createToolsSummary(counts) = "" THEN "none" ELSE createToolsSummary(counts)

----------------------------------------------------------------------------
(* The registry as one value, so that a handler is a function on it *)

World ==
    [spans |-> spans, nSpans |-> nSpans, exported |-> << >>, misuse |-> {},
     sessionSpans |-> sessionSpans,
     phaseSpans |-> phaseSpans, toolExecutions |-> toolExecutions,
     pendingSubagentContext |-> pendingSubagentContext,
     mainSessionId |-> mainSessionId, threw |-> FALSE]

NewSessionData(span, ctx, phase, agentType) ==
    [span |-> span, ctx |-> ctx, startTime |-> now, phase |-> phase,
     agentType |-> agentType, toolAggregate |-> createToolAggregate,
     agentMode |-> "", modelId |-> "",
     messageCount |-> 0, cumulativeInputTokens |-> 0, cumulativeOutputTokens |-> 0]

NewPhaseData(span, ctx, phase, agentType) ==
    [span |-> span, ctx |-> ctx, startTime |-> now, phase |-> phase,
     agentType |-> agentType]

----------------------------------------------------------------------------
(* cleanupPhaseSpan / cleanupOrphanedPhaseSpan *)

cleanupPhaseSpan(W, sessionID, success, errorMessage, counts, errors) ==
    IF MapHas(W.phaseSpans, sessionID)
    THEN LET phaseData == MapGet(W.phaseSpans, sessionID)
             W1 == SetAttrs(W, phaseData.span,
                       [success |-> IF success THEN "true" ELSE "false",
                        summary |-> summaryOrNone(counts),
                        total_count |-> totalToolCount(counts),
                        error_count |-> Len(errors)])
             W2 == SetStatus(W1, phaseData.span, IF success THEN "OK" ELSE "ERROR")
             W3 == EndSpan(W2, phaseData.span)
         IN  [W3 EXCEPT !.phaseSpans = MapDelete(@, sessionID)]
    ELSE W

cleanupOrphanedPhaseSpan(W, sessionID, reason) ==
    IF MapHas(W.phaseSpans, sessionID)
    THEN LET phaseData == MapGet(W.phaseSpans, sessionID)
             W1 == SetAttrs(W, phaseData.span,
                       [success |-> "false",
                        cleanup_reason |-> "orphaned",
                        orphan_reason |-> reason])
             W2 == AddEvent(W1, phaseData.span,
                       Event("cleanup.orphaned_phase_span", "", 0, 0))
             W3 == SetStatus(W2, phaseData.span, "ERROR")
             W4 == EndSpan(W3, phaseData.span)
         IN  [W4 EXCEPT !.phaseSpans = MapDelete(@, sessionID)]
    ELSE W

----------------------------------------------------------------------------
(* session.created, 8.4.1 *)

\* createSubagentSpans with the phase span started without the parent context
createSubagentSpansNewTrace(W, session, subagentType, parentSpanContext, parentId, taskDescription) ==
    LET phase == getPhaseForAgent(subagentType)
        W1 == StartSpan(W, <<"phase", phase>>, session.id, NoCtx,
                  [phase_name |-> phase, agent_type |-> subagentType,
                   parent_id |-> parentId])
        phaseSpan == W1.nSpans
        phaseCtx == SpanContextOf(W1, phaseSpan)
        W2 == [W1 EXCEPT !.phaseSpans =
                  MapSet(@, session.id,
                         NewPhaseData(phaseSpan, phaseCtx, phase, subagentType))]
        W3 == StartSpan(W2, <<"agent", subagentType>>, session.id, phaseCtx,
                  [agent_type |-> subagentType, parent_id |-> parentId,
                   title |-> session.title,
                   task_description |-> taskDescription])
        agentSpan == W3.nSpans
        agentCtx == SpanContextOf(W3, agentSpan)
    IN  [W3 EXCEPT !.sessionSpans =
            MapSet(@, session.id,
                   NewSessionData(agentSpan, agentCtx, phase, subagentType))]

\* the phase span, then the agent span as its child, and both records
createSubagentSpans(W, session, subagentType, parentSpanContext, parentId, taskDescription) ==
    LET phase == getPhaseForAgent(subagentType)
        W1 == StartSpan(W, <<"phase", phase>>, session.id, parentSpanContext,
                  [phase_name |-> phase, agent_type |-> subagentType,
                   parent_id |-> parentId])
        phaseSpan == W1.nSpans
        phaseCtx == SpanContextOf(W1, phaseSpan)
        W2 == [W1 EXCEPT !.phaseSpans =
                  MapSet(@, session.id,
                         NewPhaseData(phaseSpan, phaseCtx, phase, subagentType))]
        W3 == StartSpan(W2, <<"agent", subagentType>>, session.id, phaseCtx,
                  [agent_type |-> subagentType, parent_id |-> parentId,
                   title |-> session.title,
                   task_description |-> taskDescription])
        agentSpan == W3.nSpans
        agentCtx == SpanContextOf(W3, agentSpan)
    IN  [W3 EXCEPT !.sessionSpans =
            MapSet(@, session.id,
                   NewSessionData(agentSpan, agentCtx, phase, subagentType))]

\* the root span of a new trace and its record
createMainSpan(W, session) ==
    LET W1 == StartSpan(W, <<"session", "main">>, session.id, NoCtx,
                  [title |-> session.title])
        span == W1.nSpans
    IN  [W1 EXCEPT !.sessionSpans =
            MapSet(@, session.id,
                   NewSessionData(span, SpanContextOf(W1, span), "", ""))]

\* session.created that asks the title before the stored context
sessionCreated841TitleFirst(W, session) ==
    LET hasParentId == session.parentID # ""
        \* Strategy 1: parentID
        parentLive == hasParentId /\ MapHas(W.sessionSpans, session.parentID)
        pendingFound == hasParentId
                        /\ MapHas(W.pendingSubagentContext, session.parentID)
        pending == MapGet(W.pendingSubagentContext, session.parentID)
        ctx1 == IF pendingFound THEN pending.parentSpanContext
                ELSE IF parentLive
                     THEN SpanContextOf(W, MapGet(W.sessionSpans, session.parentID).span)
                     ELSE NoCtx
        type1 == IF pendingFound THEN pending.subagentType ELSE ""
        taskDescription == IF pendingFound THEN pending.taskDescription ELSE ""
        W1 == IF pendingFound
              THEN [W EXCEPT !.pendingSubagentContext = MapDelete(@, session.parentID)]
              ELSE W
        \* Strategy 2: the title, and the first session that is no subagent
        titleType == extractSubagentTypeFromTitle(session.title)
        mains == {i \in 1..Len(W.sessionSpans) : W.sessionSpans[i].v.agentType = ""}
        firstMain == W.sessionSpans[CHOOSE i \in mains : \A j \in mains : i <= j]
        viaIteration == titleType # "" /\ mains # {}
        subagentType == IF titleType # "" THEN titleType ELSE type1
        parentSpanContext == IF viaIteration THEN SpanContextOf(W, firstMain.v.span)
                             ELSE ctx1
        foundParentSessionId == IF viaIteration THEN firstMain.k ELSE session.parentID
    IN  IF subagentType # ""
        THEN createSubagentSpans(W1, session, subagentType, parentSpanContext,
                                 foundParentSessionId, taskDescription)
        ELSE createMainSpan(W1, session)

sessionCreated841(W, session) ==
    LET hasParentId == session.parentID # ""
        \* Strategy 1: parentID
        parentLive == hasParentId /\ MapHas(W.sessionSpans, session.parentID)
        pendingFound == hasParentId
                        /\ MapHas(W.pendingSubagentContext, session.parentID)
        pending == MapGet(W.pendingSubagentContext, session.parentID)
        ctx1 == IF pendingFound THEN pending.parentSpanContext
                ELSE IF parentLive
                     THEN SpanContextOf(W, MapGet(W.sessionSpans, session.parentID).span)
                     ELSE NoCtx
        type1 == IF pendingFound THEN pending.subagentType ELSE ""
        taskDescription == IF pendingFound THEN pending.taskDescription ELSE ""
        W1 == IF pendingFound
              THEN [W EXCEPT !.pendingSubagentContext = MapDelete(@, session.parentID)]
              ELSE W
        \* Strategy 2: the title, and the first session that is no subagent
        titleType == IF type1 = "" THEN extractSubagentTypeFromTitle(session.title)
                     ELSE ""
        mains == {i \in 1..Len(W.sessionSpans) : W.sessionSpans[i].v.agentType = ""}
        firstMain == W.sessionSpans[CHOOSE i \in mains : \A j \in mains : i <= j]
        viaIteration == titleType # "" /\ mains # {}
        subagentType == IF type1 # "" THEN type1 ELSE titleType
        parentSpanContext == IF viaIteration THEN SpanContextOf(W, firstMain.v.span)
                             ELSE ctx1
        foundParentSessionId == IF viaIteration THEN firstMain.k ELSE session.parentID
    IN  IF subagentType # ""
        THEN createSubagentSpans(W1, session, subagentType, parentSpanContext,
                                 foundParentSessionId, taskDescription)
        ELSE createMainSpan(W1, session)

----------------------------------------------------------------------------
(* session.created, 8.6.0 *)

\* getOrCreateMainSession that does not note the id it makes a record for
getOrCreateMainSessionKeepsPointer(W, sessionID) ==
    IF MapHas(W.sessionSpans, sessionID) THEN W
    ELSE LET W1 == StartSpan(W, <<"session", "main">>, sessionID, NoCtx,
                       [lazy_created |-> TRUE])
             span == W1.nSpans
         IN  [W1 EXCEPT !.sessionSpans =
                            MapSet(@, sessionID,
                                   NewSessionData(span, SpanContextOf(W1, span), "", ""))]

getOrCreateMainSession(W, sessionID) ==
    IF MapHas(W.sessionSpans, sessionID) THEN W
    ELSE LET W1 == StartSpan(W, <<"session", "main">>, sessionID, NoCtx,
                       [lazy_created |-> TRUE])
             span == W1.nSpans
         IN  [W1 EXCEPT !.sessionSpans =
                            MapSet(@, sessionID,
                                   NewSessionData(span, SpanContextOf(W1, span), "", "")),
                        !.mainSessionId = sessionID]

sessionCreated860(W, session) ==
    LET \* Step 1
        pendingFound == session.parentID # ""
                        /\ MapHas(W.pendingSubagentContext, session.parentID)
        pendingContext == MapGet(W.pendingSubagentContext, session.parentID)
        subagentType == IF pendingFound THEN pendingContext.subagentType
                        ELSE extractSubagentTypeFromTitle(session.title)
        isSubAgent == subagentType # ""
        W1 == IF pendingFound
              THEN [W EXCEPT !.pendingSubagentContext = MapDelete(@, session.parentID)]
              ELSE W
        \* Step 2
        parentId == IF session.parentID # "" THEN session.parentID ELSE W1.mainSessionId
        linked == isSubAgent /\ parentId # ""
        W2 == IF linked THEN getOrCreateMainSession(W1, parentId) ELSE W1
        parentSpanContext ==
            IF ~linked THEN NoCtx
            ELSE IF pendingFound THEN pendingContext.parentSpanContext
            ELSE SpanContextOf(W2, MapGet(W2.sessionSpans, parentId).span)
        taskDescription == IF pendingFound THEN pendingContext.taskDescription ELSE ""
    IN  IF isSubAgent
        THEN createSubagentSpans(W2, session, subagentType, parentSpanContext,
                 IF session.parentID # "" THEN session.parentID ELSE W2.mainSessionId,
                 taskDescription)
        ELSE [createMainSpan(W2, session) EXCEPT !.mainSessionId = session.id]

----------------------------------------------------------------------------
(* session.idle, session.error *)

\* closeSession without its setStatus call
closeSessionStatusUnset(W, sessionID, success, errorMessage, errorAttrs) ==
    LET sessionData == MapGet(W.sessionSpans, sessionID)
        agg == sessionData.toolAggregate
        W1 == cleanupPhaseSpan(W, sessionID, success, errorMessage,
                               agg.counts, agg.errors)
        W2 == SetAttrs(W1, sessionData.span,
                  [success |-> IF success THEN "true" ELSE "false"])
        W3 == EndSpan(W2, sessionData.span)
    IN  [W3 EXCEPT !.sessionSpans = MapDelete(@, sessionID)]

\* the entries of the error log that errors.slice(0, 50) keeps
ERRORS_DETAIL_CAP == 50

\* Array.prototype.slice(0, n)
arraySlice(items, n) == IF Len(items) <= n THEN items ELSE SubSeq(items, 1, n)

\* closeSession that takes a logged tool error for a failure of the session
closeSessionFailsOnToolError(W, sessionID, success, errorMessage, errorAttrs) ==
    LET sessionData == MapGet(W.sessionSpans, sessionID)
        agg == sessionData.toolAggregate
        ok == success /\ Len(agg.errors) = 0
        W1 == cleanupPhaseSpan(W, sessionID, success, errorMessage,
                               agg.counts, agg.errors)
        W2 == SetAttrs(W1, sessionData.span,
                  [success |-> IF ok THEN "true" ELSE "false",
                   summary |-> summaryOrNone(agg.counts),
                   total_count |-> totalToolCount(agg.counts),
                   error_count |-> Len(agg.errors),
                   executions |-> agg.executions])
        W3 == SetStatus(W2, sessionData.span, IF ok THEN "OK" ELSE "ERROR")
        W4 == EndSpan(W3, sessionData.span)
    IN  [W4 EXCEPT !.sessionSpans = MapDelete(@, sessionID)]

\* closeSession that calls end() before it sets the status
closeSessionEndsFirst(W, sessionID, success, errorMessage, errorAttrs) ==
    LET sessionData == MapGet(W.sessionSpans, sessionID)
        agg == sessionData.toolAggregate
        W1 == cleanupPhaseSpan(W, sessionID, success, errorMessage,
                               agg.counts, agg.errors)
        W2 == SetAttrs(W1, sessionData.span,
                  [success |-> IF success THEN "true" ELSE "false",
                   summary |-> summaryOrNone(agg.counts),
                   total_count |-> totalToolCount(agg.counts),
                   error_count |-> Len(agg.errors),
                   executions |-> agg.executions])
        W2a == IF Len(agg.errors) > 0
               THEN SetAttrs(W2, sessionData.span,
                        [errors_detail |-> arraySlice(agg.errors, ERRORS_DETAIL_CAP)])
               ELSE W2
        W3 == EndSpan(W2a, sessionData.span)
        W4 == SetStatus(W3, sessionData.span, IF success THEN "OK" ELSE "ERROR")
        W5 == SetAttrs(W4, sessionData.span, errorAttrs)
    IN  [W5 EXCEPT !.sessionSpans = MapDelete(@, sessionID)]

\* the final attributes of a session span, the status, end() and the delete
closeSession(W, sessionID, success, errorMessage, errorAttrs) ==
    LET sessionData == MapGet(W.sessionSpans, sessionID)
        agg == sessionData.toolAggregate
        \* End phase span FIRST
        W1 == cleanupPhaseSpan(W, sessionID, success, errorMessage,
                               agg.counts, agg.errors)
        W2 == SetAttrs(W1, sessionData.span,
                  [success |-> IF success THEN "true" ELSE "false",
                   summary |-> summaryOrNone(agg.counts),
                   total_count |-> totalToolCount(agg.counts),
                   error_count |-> Len(agg.errors),
                   executions |-> agg.executions])
        W2a == IF Len(agg.errors) > 0
               THEN SetAttrs(W2, sessionData.span,
                        [errors_detail |-> arraySlice(agg.errors, ERRORS_DETAIL_CAP)])
               ELSE W2
        W3 == SetStatus(W2a, sessionData.span, IF success THEN "OK" ELSE "ERROR")
        W4 == SetAttrs(W3, sessionData.span, errorAttrs)
        W5 == EndSpan(W4, sessionData.span)
    IN  [W5 EXCEPT !.sessionSpans = MapDelete(@, sessionID)]

\* session.idle that also drops what the session has stored and started
sessionIdleDropsRecords(W, sessionID) ==
    IF MapHas(W.sessionSpans, sessionID)
    THEN LET W1 == closeSession(W, sessionID, TRUE, "", << >>)
         IN  [W1 EXCEPT !.pendingSubagentContext = MapDelete(@, sessionID),
                        !.toolExecutions =
                            SelectSeq(@, LAMBDA e : e.v.sessionID # sessionID)]
    ELSE cleanupOrphanedPhaseSpan(W, sessionID, <<"session_span_missing_on_idle">>)

sessionIdle(W, sessionID) ==
    IF MapHas(W.sessionSpans, sessionID)
    THEN closeSession(W, sessionID, TRUE, "", << >>)
    ELSE cleanupOrphanedPhaseSpan(W, sessionID, <<"session_span_missing_on_idle">>)

\* session.error that drops the context stored under an id without a record
sessionErrorDropsPending(W, sessionID, error) ==
    IF sessionID # "" /\ ~MapHas(W.sessionSpans, sessionID)
    THEN [W EXCEPT !.pendingSubagentContext = MapDelete(@, sessionID)]
    ELSE W

\* error = [present, name, message]; name and message "" when the host omits them
sessionError(W, sessionID, error) ==
    LET errorName == IF error.present /\ error.name # "" THEN error.name
                     ELSE "UnknownError"
        errorMessage == IF error.present /\ error.message # "" THEN error.message
                        ELSE "Unknown error"
    IN  IF sessionID = "" THEN W
        ELSE IF MapHas(W.sessionSpans, sessionID)
        THEN closeSession(W, sessionID, FALSE, errorMessage,
                 IF error.present
                 THEN [error_name |-> errorName, error_message |-> errorMessage]
                 ELSE << >>)
        ELSE cleanupOrphanedPhaseSpan(W, sessionID,
                                      <<"session_span_missing_on_error", errorMessage>>)

----------------------------------------------------------------------------
(* tool.execute.before / tool.execute.after / message.part.updated *)

\* the length String.prototype.slice(0, n) keeps of the serialized arguments
ARGS_PREVIEW_CAP == 200

\* a field in a template literal: an omitted one prints as "undefined"
templateOf(field) == IF field = "" THEN "undefined" ELSE field

jsonField(key, value) ==
    IF value = "" THEN << >> ELSE << "\"" \o key \o "\":\"" \o value \o "\"" >>

\* JSON.stringify(output.args) of an object of string fields
JSONstringify(args) ==
    "{" \o JoinComma(jsonField("subagent_type", args.subagent_type)
                     \o jsonField("description", args.description)
                     \o jsonField("filePath", args.filePath)) \o "}"

slice(text, n) == IF Len(text) <= n THEN text ELSE SubSeq(text, 1, n)

\* args = [present, subagent_type, description, filePath]; "" for a field the
\* host omits
argsPreviewOf(tool, args) ==
    IF tool = "task"
    THEN templateOf(args.subagent_type) \o ": " \o templateOf(args.description)
    ELSE IF args.description # "" THEN args.description
    ELSE slice(JSONstringify(args), ARGS_PREVIEW_CAP)

\* toolStart that sets the count of the tool to 1
toolStartCountsOnce(W, input, args) ==
    LET sessionData == MapGet(W.sessionSpans, input.sessionID)
        sequenceNumber == sessionData.toolAggregate.executions + 1
        counted == [sessionData EXCEPT
                       !.toolAggregate.executions = sequenceNumber,
                       !.toolAggregate.counts =
                           MapSet(@, input.tool, 1)]
        W1 == [W EXCEPT !.sessionSpans = MapSet(@, input.sessionID, counted)]
        W2 == AddEvent(W1, sessionData.span,
                  [Event("tool.start", input.tool, input.callID, sequenceNumber)
                      EXCEPT !.args_preview = argsPreviewOf(input.tool, args)])
        W3 == [W2 EXCEPT !.toolExecutions =
                  MapSet(@, input.callID,
                         [tool |-> input.tool, callId |-> input.callID,
                          startTime |-> now, sequenceNumber |-> sequenceNumber,
                          sessionID |-> input.sessionID,
                          argsPreview |-> argsPreviewOf(input.tool, args)])]
        W4 == [W3 EXCEPT !.pendingSubagentContext =
                  MapSet(@, input.sessionID,
                         [subagentType |-> args.subagent_type,
                          parentSessionId |-> input.sessionID,
                          taskDescription |-> args.description,
                          parentCtx |-> sessionData.ctx,
                          parentSpanContext |-> SpanContextOf(W3, sessionData.span),
                          createdAt |-> now])]
        W5 == AddEvent(W4, sessionData.span,
                  Event("debug.pending_context_stored", input.tool, input.callID, 0))
    IN  IF ~args.present
        THEN [W1 EXCEPT !.threw = TRUE]   \* JSON.stringify(undefined).slice
        ELSE IF input.tool = "task" /\ args.subagent_type # "" THEN W5
        ELSE W3

\* tool.execute.before from the sequence number on; the session record exists
toolStart(W, input, args) ==
    LET sessionData == MapGet(W.sessionSpans, input.sessionID)
        sequenceNumber == sessionData.toolAggregate.executions + 1
        counted == [sessionData EXCEPT
                       !.toolAggregate.executions = sequenceNumber,
                       !.toolAggregate.counts =
                           MapSet(@, input.tool, countOfTool(@, input.tool) + 1)]
        W1 == [W EXCEPT !.sessionSpans = MapSet(@, input.sessionID, counted)]
        W2 == AddEvent(W1, sessionData.span,
                  [Event("tool.start", input.tool, input.callID, sequenceNumber)
                      EXCEPT !.args_preview = argsPreviewOf(input.tool, args)])
        W3 == [W2 EXCEPT !.toolExecutions =
                  MapSet(@, input.callID,
                         [tool |-> input.tool, callId |-> input.callID,
                          startTime |-> now, sequenceNumber |-> sequenceNumber,
                          sessionID |-> input.sessionID,
                          argsPreview |-> argsPreviewOf(input.tool, args)])]
        W4 == [W3 EXCEPT !.pendingSubagentContext =
                  MapSet(@, input.sessionID,
                         [subagentType |-> args.subagent_type,
                          parentSessionId |-> input.sessionID,
                          taskDescription |-> args.description,
                          parentCtx |-> sessionData.ctx,
                          parentSpanContext |-> SpanContextOf(W3, sessionData.span),
                          createdAt |-> now])]
        W5 == AddEvent(W4, sessionData.span,
                  Event("debug.pending_context_stored", input.tool, input.callID, 0))
    IN  IF ~args.present
        THEN [W1 EXCEPT !.threw = TRUE]   \* JSON.stringify(undefined).slice
        ELSE IF input.tool = "task" /\ args.subagent_type # "" THEN W5
        ELSE W3

toolExecuteBefore841(W, input, args) ==
    IF ~MapHas(W.sessionSpans, input.sessionID) THEN W
    ELSE toolStart(W, input, args)

toolExecuteBefore860(W, input, args) ==
    toolStart(getOrCreateMainSession(W, input.sessionID), input, args)

\* tool.execute.after that marks the end of a call it has no execution of on
\* the span of the first session record
toolExecuteAfterMarksUnknown(W, input) ==
    IF ~MapHas(W.toolExecutions, input.callID)
    THEN IF W.sessionSpans = << >> THEN W
         ELSE AddEvent(W, W.sessionSpans[1].v.span,
                       Event("tool.end", input.tool, input.callID, 0))
    ELSE LET execution == MapGet(W.toolExecutions, input.callID)
             dropped == [W EXCEPT !.toolExecutions = MapDelete(@, input.callID)]
         IN  IF ~MapHas(W.sessionSpans, execution.sessionID) THEN dropped
             ELSE LET sessionData == MapGet(W.sessionSpans, execution.sessionID)
                      duration == now - execution.startTime
                      W1 == [W EXCEPT !.sessionSpans =
                                MapSet(@, execution.sessionID,
                                       [sessionData EXCEPT
                                           !.toolAggregate.totalDurationMs = @ + duration])]
                      W2 == AddEvent(W1, sessionData.span,
                                Event("tool.end", input.tool, input.callID,
                                      execution.sequenceNumber))
                  IN  [W2 EXCEPT !.toolExecutions = MapDelete(@, input.callID)]

toolExecuteAfter(W, input) ==
    IF ~MapHas(W.toolExecutions, input.callID) THEN W
    ELSE LET execution == MapGet(W.toolExecutions, input.callID)
             dropped == [W EXCEPT !.toolExecutions = MapDelete(@, input.callID)]
         IN  IF ~MapHas(W.sessionSpans, execution.sessionID) THEN dropped
             ELSE LET sessionData == MapGet(W.sessionSpans, execution.sessionID)
                      duration == now - execution.startTime
                      W1 == [W EXCEPT !.sessionSpans =
                                MapSet(@, execution.sessionID,
                                       [sessionData EXCEPT
                                           !.toolAggregate.totalDurationMs = @ + duration])]
                      W2 == AddEvent(W1, sessionData.span,
                                Event("tool.end", input.tool, input.callID,
                                      execution.sequenceNumber))
                  IN  [W2 EXCEPT !.toolExecutions = MapDelete(@, input.callID)]

\* message.part.updated that deletes the execution of a session without a
\* record
messagePartUpdatedDropsOrphan(W, part) ==
    IF part.type # "tool" THEN W
    ELSE IF ~MapHas(W.toolExecutions, part.callID) THEN W
    ELSE IF ~part.state.present THEN [W EXCEPT !.threw = TRUE]
    ELSE LET execution == MapGet(W.toolExecutions, part.callID)
         IN  IF part.state.status = "error" /\ MapHas(W.sessionSpans, execution.sessionID)
             THEN LET sessionData == MapGet(W.sessionSpans, execution.sessionID)
                      errorMessage == IF part.state.error # "" THEN part.state.error
                                      ELSE "Unknown error"
                      duration == now - execution.startTime
                      W1 == [W EXCEPT !.sessionSpans =
                                MapSet(@, execution.sessionID,
                                    [sessionData EXCEPT
                                        !.toolAggregate.errors =
                                            Append(@, [tool |-> execution.tool,
                                                       message |-> errorMessage,
                                                       timestamp |-> now,
                                                       callId |-> part.callID,
                                                       sequenceNumber |->
                                                           execution.sequenceNumber]),
                                        !.toolAggregate.totalDurationMs = @ + duration])]
                      W2 == AddEvent(W1, sessionData.span,
                                Event("tool.error", execution.tool, part.callID,
                                      execution.sequenceNumber))
                  IN  [W2 EXCEPT !.toolExecutions = MapDelete(@, part.callID)]
             ELSE IF part.state.status = "error"
             THEN [W EXCEPT !.toolExecutions = MapDelete(@, part.callID)]
             ELSE W

\* message.part.updated whose error branch leaves the execution in its Map
messagePartUpdatedKeepsExecution(W, part) ==
    IF part.type # "tool" THEN W
    ELSE IF ~MapHas(W.toolExecutions, part.callID) THEN W
    ELSE IF ~part.state.present THEN [W EXCEPT !.threw = TRUE]
    ELSE LET execution == MapGet(W.toolExecutions, part.callID)
         IN  IF part.state.status = "error" /\ MapHas(W.sessionSpans, execution.sessionID)
             THEN LET sessionData == MapGet(W.sessionSpans, execution.sessionID)
                      errorMessage == IF part.state.error # "" THEN part.state.error
                                      ELSE "Unknown error"
                      duration == now - execution.startTime
                      W1 == [W EXCEPT !.sessionSpans =
                                MapSet(@, execution.sessionID,
                                    [sessionData EXCEPT
                                        !.toolAggregate.errors =
                                            Append(@, [tool |-> execution.tool,
                                                       message |-> errorMessage,
                                                       timestamp |-> now,
                                                       callId |-> part.callID,
                                                       sequenceNumber |->
                                                           execution.sequenceNumber]),
                                        !.toolAggregate.totalDurationMs = @ + duration])]
                  IN  AddEvent(W1, sessionData.span,
                               Event("tool.error", execution.tool, part.callID,
                                     execution.sequenceNumber))
             ELSE W

\* part = [type, callID, state]; state = [present, status, error]
messagePartUpdated(W, part) ==
    IF part.type # "tool" THEN W
    ELSE IF ~MapHas(W.toolExecutions, part.callID) THEN W
    ELSE IF ~part.state.present THEN [W EXCEPT !.threw = TRUE]
    ELSE LET execution == MapGet(W.toolExecutions, part.callID)
         IN  IF part.state.status = "error" /\ MapHas(W.sessionSpans, execution.sessionID)
             THEN LET sessionData == MapGet(W.sessionSpans, execution.sessionID)
                      errorMessage == IF part.state.error # "" THEN part.state.error
                                      ELSE "Unknown error"
                      duration == now - execution.startTime
                      W1 == [W EXCEPT !.sessionSpans =
                                MapSet(@, execution.sessionID,
                                    [sessionData EXCEPT
                                        !.toolAggregate.errors =
                                            Append(@, [tool |-> execution.tool,
                                                       message |-> errorMessage,
                                                       timestamp |-> now,
                                                       callId |-> part.callID,
                                                       sequenceNumber |->
                                                           execution.sequenceNumber]),
                                        !.toolAggregate.totalDurationMs = @ + duration])]
                      W2 == AddEvent(W1, sessionData.span,
                                Event("tool.error", execution.tool, part.callID,
                                      execution.sequenceNumber))
                  IN  [W2 EXCEPT !.toolExecutions = MapDelete(@, part.callID)]
             ELSE W

----------------------------------------------------------------------------
(* message.updated *)

\* message = [role, sessionID, mode, modelID, providerID, tokens];
\* tokens = [present, input, output, reasoning, cache];
\* cache = [present, read, write]; "" for a string the host omits
messageUpdated(W, message) ==
    IF message.role # "assistant" THEN W
    ELSE IF ~MapHas(W.sessionSpans, message.sessionID) THEN W
    ELSE LET sessionData == MapGet(W.sessionSpans, message.sessionID)
             tokens == message.tokens
             counted == [sessionData EXCEPT
                            !.messageCount = @ + 1,
                            !.agentMode = IF message.mode # "" THEN message.mode ELSE @,
                            !.modelId = IF message.modelID # "" THEN message.modelID ELSE @]
             W1 == [W EXCEPT !.sessionSpans = MapSet(@, message.sessionID, counted)]
             W2 == IF message.mode # ""
                   THEN SetAttrs(W1, sessionData.span, [agent_mode |-> message.mode])
                   ELSE W1
             W3 == IF message.modelID # ""
                   THEN SetAttrs(W2, sessionData.span, [model_id |-> message.modelID])
                   ELSE W2
             W4 == IF message.providerID # ""
                   THEN SetAttrs(W3, sessionData.span, [provider_id |-> message.providerID])
                   ELSE W3
             W5 == SetAttrs(W4, sessionData.span,
                       [tokens_input |-> tokens.input, tokens_output |-> tokens.output,
                        tokens_reasoning |-> tokens.reasoning])
             W6 == SetAttrs(W5, sessionData.span,
                       [tokens_cache_read |-> tokens.cache.read,
                        tokens_cache_write |-> tokens.cache.write])
             summed == [counted EXCEPT
                           !.cumulativeInputTokens = @ + tokens.input,
                           !.cumulativeOutputTokens = @ + tokens.output]
         IN  IF ~tokens.present THEN W4
             ELSE IF ~tokens.cache.present
             THEN [W5 EXCEPT !.threw = TRUE]   \* message.tokens.cache.read
             ELSE [W6 EXCEPT !.sessionSpans = MapSet(@, message.sessionID, summed)]

----------------------------------------------------------------------------
(* performTTLCleanup: four loops, each over its Map's entries in insertion *)
(* order, deleting the entry it is at                                      *)

\* the session test with >= for >
sessionExpiredInclusive(startTime) == now - startTime >= SESSION_TTL_MS
\* the tool test against the TTL of sessions
toolExpiredAsSession(startTime) == now - startTime > SESSION_TTL_MS

sessionExpired(startTime) == now - startTime > SESSION_TTL_MS
toolExpired(startTime) == now - startTime > TOOL_TTL_MS
\* the test of a stored context that takes the TTL itself as expired
pendingExpiredInclusive(createdAt) == now - createdAt >= PENDING_CONTEXT_TTL_MS

pendingExpired(createdAt) == now - createdAt > PENDING_CONTEXT_TTL_MS

\* expireSession without the delete
expireSessionKeepsRecord(W, sessionId, sessionData) ==
    LET W1 == SetAttrs(W, sessionData.span, [cleanup_reason |-> "ttl_expired"])
        W2 == AddEvent(W1, sessionData.span, Event("cleanup.ttl_expired", "", 0, 0))
        W3 == SetStatus(W2, sessionData.span, "ERROR")
    IN  EndSpan(W3, sessionData.span)

expireSession(W, sessionId, sessionData) ==
    LET W1 == SetAttrs(W, sessionData.span, [cleanup_reason |-> "ttl_expired"])
        W2 == AddEvent(W1, sessionData.span, Event("cleanup.ttl_expired", "", 0, 0))
        W3 == SetStatus(W2, sessionData.span, "ERROR")
        W4 == EndSpan(W3, sessionData.span)
    IN  [W4 EXCEPT !.sessionSpans = MapDelete(@, sessionId)]

\* expirePhase without the delete
expirePhaseKeepsRecord(W, sessionId, phaseData) ==
    LET W1 == SetAttrs(W, phaseData.span, [cleanup_reason |-> "ttl_expired"])
        W2 == AddEvent(W1, phaseData.span, Event("cleanup.ttl_expired", "", 0, 0))
        W3 == SetStatus(W2, phaseData.span, "ERROR")
    IN  EndSpan(W3, phaseData.span)

expirePhase(W, sessionId, phaseData) ==
    LET W1 == SetAttrs(W, phaseData.span, [cleanup_reason |-> "ttl_expired"])
        W2 == AddEvent(W1, phaseData.span, Event("cleanup.ttl_expired", "", 0, 0))
        W3 == SetStatus(W2, phaseData.span, "ERROR")
        W4 == EndSpan(W3, phaseData.span)
    IN  [W4 EXCEPT !.phaseSpans = MapDelete(@, sessionId)]

\* expireTool that ends the span of the session the execution belongs to
expireToolEndsSpan(W, callId, execution) ==
    LET W1 == IF MapHas(W.sessionSpans, execution.sessionID)
              THEN EndSpan(W, MapGet(W.sessionSpans, execution.sessionID).span)
              ELSE W
    IN  [W1 EXCEPT !.toolExecutions = MapDelete(@, callId)]

expireTool(W, callId, execution) ==
    LET W1 == IF MapHas(W.sessionSpans, execution.sessionID)
              THEN AddEvent(W, MapGet(W.sessionSpans, execution.sessionID).span,
                       Event("cleanup.tool_ttl_expired", execution.tool, callId, 0))
              ELSE W
    IN  [W1 EXCEPT !.toolExecutions = MapDelete(@, callId)]

expirePending(W, sessionId, pending) ==
    LET W1 == IF MapHas(W.sessionSpans, pending.parentSessionId)
              THEN AddEvent(W, MapGet(W.sessionSpans, pending.parentSessionId).span,
                       Event("cleanup.pending_context_ttl_expired",
                             pending.subagentType, 0, 0))
              ELSE W
    IN  [W1 EXCEPT !.pendingSubagentContext = MapDelete(@, sessionId)]

\* the session loop that stops at the first expired session
RECURSIVE cleanSessionsFirstOnly(_, _)
cleanSessionsFirstOnly(W, entries) ==
    IF entries = << >> THEN W
    ELSE LET e == Head(entries)
         IN  IF sessionExpired(e.v.startTime) THEN expireSession(W, e.k, e.v)
             ELSE cleanSessionsFirstOnly(W, Tail(entries))

RECURSIVE cleanSessions(_, _)
cleanSessions(W, entries) ==
    IF entries = << >> THEN W
    ELSE LET e == Head(entries)
         IN  cleanSessions(IF sessionExpired(e.v.startTime)
                           THEN expireSession(W, e.k, e.v) ELSE W,
                           Tail(entries))

RECURSIVE cleanPhases(_, _)
cleanPhases(W, entries) ==
    IF entries = << >> THEN W
    ELSE LET e == Head(entries)
         IN  cleanPhases(IF sessionExpired(e.v.startTime)
                         THEN expirePhase(W, e.k, e.v) ELSE W,
                         Tail(entries))

RECURSIVE cleanTools(_, _)
cleanTools(W, entries) ==
    IF entries = << >> THEN W
    ELSE LET e == Head(entries)
         IN  cleanTools(IF toolExpired(e.v.startTime)
                        THEN expireTool(W, e.k, e.v) ELSE W,
                        Tail(entries))

RECURSIVE cleanPending(_, _)
cleanPending(W, entries) ==
    IF entries = << >> THEN W
    ELSE LET e == Head(entries)
         IN  cleanPending(IF pendingExpired(e.v.createdAt)
                          THEN expirePending(W, e.k, e.v) ELSE W,
                          Tail(entries))

performTTLCleanup(W) ==
    LET W1 == cleanSessions(W, W.sessionSpans)
        W2 == cleanPhases(W1, W1.phaseSpans)
        W3 == cleanTools(W2, W2.toolExecutions)
    IN  cleanPending(W3, W3.pendingSubagentContext)

----------------------------------------------------------------------------
(* The state machine *)

NoArgs == [present |-> FALSE, subagent_type |-> "", description |-> "", filePath |-> ""]
PlainArgs == [present |-> TRUE, subagent_type |-> "", description |-> "", filePath |-> ""]
TaskArgs ==
    [present : {TRUE}, subagent_type : SubagentTypes, description : Descriptions,
     filePath : {""}]
\* the invocations the host makes: a tool with its arguments, a tool whose
\* arguments are absent, and the task tool naming a subagent
ToolCalls ==
    [tool : Tools \ {"task"}, args : {PlainArgs, NoArgs}]
    \cup [tool : {"task"}, args : TaskArgs]

SessionInfos ==
    {s \in [id : SessionIds, parentID : SessionIds \cup {""}, title : Titles] :
        s.parentID # s.id}

ErrorInfos ==
    {[present |-> FALSE, name |-> "", message |-> ""]}
    \cup [present : {TRUE}, name : {"APIError"}, message : ErrorMessages]

PartStates ==
    {[present |-> FALSE, status |-> "", error |-> ""]}
    \cup [present : {TRUE}, status : {"running", "error"}, error : ErrorMessages]

Parts(B) ==
    [type : {"tool"}, callID : 1..B.calls, state : PartStates]
    \cup {[type |-> "text", callID |-> 0, state |-> [present |-> FALSE, status |-> "", error |-> ""]]}

NoCache == [present |-> FALSE, read |-> 0, write |-> 0]
NoTokens == [present |-> FALSE, input |-> 0, output |-> 0, reasoning |-> 0, cache |-> NoCache]
\* the token usage of a message, and one that lacks the cache counts
FullTokens ==
    [present |-> TRUE, input |-> 10, output |-> 5, reasoning |-> 1,
     cache |-> [present |-> TRUE, read |-> 3, write |-> 2]]
PartialTokens ==
    [present |-> TRUE, input |-> 10, output |-> 5, reasoning |-> 1, cache |-> NoCache]

\* the messages the host reports: an assistant message with everything, one
\* with nothing but its role, one with partial token data, a user message
Messages ==
    [role : {"assistant"}, sessionID : SessionIds, mode : {"build"}, modelID : {"m1"},
     providerID : {"p1"}, tokens : {FullTokens}]
    \cup [role : {"assistant"}, sessionID : SessionIds, mode : {""}, modelID : {""},
          providerID : {""}, tokens : {NoTokens, PartialTokens}]
    \cup [role : {"user"}, sessionID : SessionIds, mode : {""}, modelID : {""},
          providerID : {""}, tokens : {NoTokens}]

\* what is kept of a span the handler ended
Ended(sp) ==
    [id |-> sp.id, name |-> sp.name, sessionId |-> sp.sessionId,
     status |-> sp.status, success |-> sp.attrs.success,
     cleanup_reason |-> sp.attrs.cleanup_reason,
     total_count |-> sp.attrs.total_count, summary |-> sp.attrs.summary,
     error_count |-> sp.attrs.error_count,
     errors_kept |-> Len(sp.attrs.errors_detail),
     error_name |-> sp.attrs.error_name, error_message |-> sp.attrs.error_message]

Install(W) ==
    /\ spans' = W.spans
    /\ nSpans' = W.nSpans
    /\ exported' = [i \in 1..Len(W.exported) |-> Ended(W.exported[i])]
    /\ misuse' = W.misuse
    /\ sessionSpans' = W.sessionSpans
    /\ phaseSpans' = W.phaseSpans
    /\ toolExecutions' = W.toolExecutions
    /\ pendingSubagentContext' = W.pendingSubagentContext
    /\ mainSessionId' = W.mainSessionId
    /\ threw' = W.threw

\* the hooks the plugin function returns to the host that never exits early
HoneycombTracingPluginNoExit(key) ==
    {"event", "tool.execute.before", "tool.execute.after"}

\* the hooks the plugin function returns to the host
HoneycombTracingPlugin(key) ==
    IF ~key THEN {} ELSE {"event", "tool.execute.before", "tool.execute.after"}

\* the hooks the host calls
Hooks == HoneycombTracingPlugin(HONEYCOMB_API_KEY)

\* the module after load: the SDK and the interval timer are started if the
\* key is set
Loaded(key) ==
    /\ HONEYCOMB_API_KEY = key
    /\ version \in Versions
    /\ now = 0
    /\ spans = << >>
    /\ nSpans = 0
    /\ exported = << >>
    /\ misuse = {}
    /\ sessionSpans = << >>
    /\ phaseSpans = << >>
    /\ toolExecutions = << >>
    /\ pendingSubagentContext = << >>
    /\ mainSessionId = ""
    /\ threw = FALSE
    /\ nCalls = 0
    /\ cleanupInterval = key

Init ==
    /\ HONEYCOMB_API_KEY = TRUE
    /\ version \in Versions
    /\ now = 0
    /\ spans = << >>
    /\ nSpans = 0
    /\ exported = << >>
    /\ misuse = {}
    /\ sessionSpans = << >>
    /\ phaseSpans = << >>
    /\ toolExecutions = << >>
    /\ pendingSubagentContext = << >>
    /\ mainSessionId = ""
    /\ threw = FALSE
    /\ nCalls = 0
    /\ cleanupInterval = TRUE

SessionCreated841(B, session) ==
    /\ version = "8.4.1"
    /\ LET W == sessionCreated841(World, session)
       IN  W.nSpans <= B.spans /\ Install(W)
    /\ UNCHANGED <<HONEYCOMB_API_KEY, version, now, nCalls, cleanupInterval>>

SessionCreated860(B, session) ==
    /\ version = "8.6.0"
    /\ LET W == sessionCreated860(World, session)
       IN  W.nSpans <= B.spans /\ Install(W)
    /\ UNCHANGED <<HONEYCOMB_API_KEY, version, now, nCalls, cleanupInterval>>

SessionIdle(sessionID) ==
    /\ Install(sessionIdle(World, sessionID))
    /\ UNCHANGED <<HONEYCOMB_API_KEY, version, now, nCalls, cleanupInterval>>

SessionError(sessionID, error) ==
    /\ Install(sessionError(World, sessionID, error))
    /\ UNCHANGED <<HONEYCOMB_API_KEY, version, now, nCalls, cleanupInterval>>

\* the host issues a fresh call id with every tool invocation
ToolExecuteBefore841(B, sessionID, call) ==
    /\ version = "8.4.1"
    /\ nCalls < B.calls
    /\ LET input == [sessionID |-> sessionID, tool |-> call.tool, callID |-> nCalls + 1]
       IN  Install(toolExecuteBefore841(World, input, call.args))
    /\ nCalls' = nCalls + 1
    /\ UNCHANGED <<HONEYCOMB_API_KEY, version, now, cleanupInterval>>

ToolExecuteBefore860(B, sessionID, call) ==
    /\ version = "8.6.0"
    /\ nCalls < B.calls
    /\ LET input == [sessionID |-> sessionID, tool |-> call.tool, callID |-> nCalls + 1]
           W == toolExecuteBefore860(World, input, call.args)
       IN  W.nSpans <= B.spans /\ Install(W)
    /\ nCalls' = nCalls + 1
    /\ UNCHANGED <<HONEYCOMB_API_KEY, version, now, cleanupInterval>>

\* the after hook names the tool the before hook named
ToolExecuteAfter(callID, tool) ==
    /\ MapHas(toolExecutions, callID) => tool = MapGet(toolExecutions, callID).tool
    /\ Install(toolExecuteAfter(World, [callID |-> callID, tool |-> tool]))
    /\ UNCHANGED <<HONEYCOMB_API_KEY, version, now, nCalls, cleanupInterval>>

MessagePartUpdated(part) ==
    /\ Install(messagePartUpdated(World, part))
    /\ UNCHANGED <<HONEYCOMB_API_KEY, version, now, nCalls, cleanupInterval>>

\* the counters of a record grow without limit; the model stops at MsgMessages
MessageUpdated(message) ==
    /\ MapHas(sessionSpans, message.sessionID)
       => MapGet(sessionSpans, message.sessionID).messageCount < MsgMessages
    /\ Install(messageUpdated(World, message))
    /\ UNCHANGED <<HONEYCOMB_API_KEY, version, now, nCalls, cleanupInterval>>

\* the setInterval callback
Cleanup ==
    /\ cleanupInterval
    /\ Install(performTTLCleanup(World))
    /\ UNCHANGED <<HONEYCOMB_API_KEY, version, now, nCalls, cleanupInterval>>

\* the SIGTERM / SIGINT handler: the timer is cleared, performTTLCleanup runs
\* once more, the SDK is shut down
Shutdown ==
    /\ cleanupInterval' = FALSE
    /\ Install(performTTLCleanup(World))
    /\ UNCHANGED <<HONEYCOMB_API_KEY, version, now, nCalls>>

\* time passes between handlers; the span processor takes the ended spans
Tick(B) ==
    /\ now < B.ticks * B.step
    /\ now' = now + B.step
    /\ exported' = << >>
    /\ misuse' = {}
    /\ threw' = FALSE
    /\ UNCHANGED <<HONEYCOMB_API_KEY, version, spans, nSpans, sessionSpans, phaseSpans, toolExecutions,
                   pendingSubagentContext, mainSessionId, nCalls, cleanupInterval>>

\* the handlers the two revisions share, and the clock
Shared(B) ==
    \/ \E sessionID \in SessionIds : version = B.version /\ SessionIdle(sessionID)
    \/ \E sessionID \in SessionIds, error \in ErrorInfos :
          version = B.version /\ SessionError(sessionID, error)
    \/ version = B.version
       /\ SessionError("", CHOOSE error \in ErrorInfos : error.present)
    \/ \E callID \in 1..B.calls, tool \in Tools :
          version = B.version /\ ToolExecuteAfter(callID, tool)
    \/ \E part \in Parts(B) : version = B.version /\ MessagePartUpdated(part)
    \/ version = B.version /\ Cleanup
    \/ version = B.version /\ Tick(B)

Next841(B) ==
    \/ \E session \in SessionInfos : SessionCreated841(B, session)
    \/ \E sessionID \in SessionIds, call \in ToolCalls :
          ToolExecuteBefore841(B, sessionID, call)
    \/ Shared(B)

Next860(B) ==
    \/ \E session \in SessionInfos : SessionCreated860(B, session)
    \/ \E sessionID \in SessionIds, call \in ToolCalls :
          ToolExecuteBefore860(B, sessionID, call)
    \/ Shared(B)

\* either revision, from its first event on
Next == Next841(Bounds) \/ Next860(LazyBounds)

Spec == Init /\ [][Next]_vars

\* revision 8.4.1 over a time span longer than every TTL
NextTTL == Next841(TtlBounds)

Init841 == Init /\ version = "8.4.1"

SpecTTL == Init841 /\ [][NextTTL]_vars

\* revision 8.4.1 with the handlers that set or delete an entry of sessionSpans
\* or phaseSpans: session.created, session.idle, session.error and the cleanup
NextPhase ==
    \/ \E session \in SessionInfos : SessionCreated841(PhaseBounds, session)
    \/ \E sessionID \in SessionIds : SessionIdle(sessionID)
    \/ \E sessionID \in SessionIds, error \in ErrorInfos : SessionError(sessionID, error)
    \/ Cleanup
    \/ Tick(PhaseBounds)

SpecPhase == Init841 /\ [][NextPhase]_vars

\* revision 8.4.1 with time that passes and the interval timer that keeps
\* calling performTTLCleanup (setInterval, never cleared before shutdown)
NextLive == Next841(LiveBounds)

TimePasses == Tick(LiveBounds)

SpecLive ==
    /\ Init841
    /\ [][NextLive]_vars
    /\ WF_vars(TimePasses)
    /\ WF_vars(Cleanup)

\* revision 8.4.1 with a second tool invocation
NextSeq == Next841(SeqBounds)

SpecSeq == Init841 /\ [][NextSeq]_vars

\* revision 8.4.1 with the signal that shuts the plugin down; the host may
\* still deliver events while the SDK shuts down
NextStop == Next841(StopBounds) \/ Shutdown

SpecStop == Init841 /\ [][NextStop]_vars

\* revision 8.4.1 with message.updated events
NextMsg ==
    \/ Next841(MsgBounds)
    \/ \E message \in Messages : MessageUpdated(message)

SpecMsg == Init841 /\ [][NextMsg]_vars

\* a text of n characters
RECURSIVE Repeat(_, _)
Repeat(char, n) ==
    IF n = 0 THEN ""
    ELSE LET half == Repeat(char, n \div 2)
         IN  half \o half \o (IF n % 2 = 1 THEN char ELSE "")

LongText == Repeat("x", LongLength)

\* invocations with a long description or a long argument
LongToolCalls ==
    [tool : Tools,
     args : [present : {TRUE}, subagent_type : SubagentTypes \cup {""},
             description : {"", LongText}, filePath : {"", "a.ts", LongText}]]

\* revision 8.4.1 with tool invocations of any argument size
NextPreview ==
    \/ Next841(PreviewBounds)
    \/ \E sessionID \in SessionIds, call \in LongToolCalls :
          ToolExecuteBefore841(PreviewBounds, sessionID, call)

SpecPreview == Init841 /\ [][NextPreview]_vars

\* revision 8.4.1 with one session, "u1", that runs one tool at a time, each
\* invocation reported as failed by message.part.updated
NextErrors ==
    \/ \E session \in SessionInfos :
          session.id = "u1" /\ SessionCreated841(ErrorsBounds, session)
    \/ /\ toolExecutions = << >>
       /\ ToolExecuteBefore841(ErrorsBounds, "u1", [tool |-> "read", args |-> PlainArgs])
    \/ \E part \in Parts(ErrorsBounds) :
          /\ part.type = "tool"
          /\ part.callID = nCalls
          /\ part.state.status = "error"
          /\ MessagePartUpdated(part)
    \/ SessionIdle("u1")
    \/ \E error \in ErrorInfos : error.present /\ SessionError("u1", error)

SpecErrors == Init841 /\ [][NextErrors]_vars

\* revision 8.4.1 with every age from 0 to 35 minutes in steps of 5
NextAge == Next841(AgeBounds)
SpecAge == Init841 /\ [][NextAge]_vars

\* one session u1 that calls the task tool, each time with another type and
\* description, and the two sessions c1 and c2 the host creates for the work
PairChildren == {"c1", "c2"}
PairTaskArgs ==
    {[present |-> TRUE, subagent_type |-> "worker", description |-> "do X",
      filePath |-> ""],
     [present |-> TRUE, subagent_type |-> "reviewer", description |-> "do Y",
      filePath |-> ""]}
PairToolCalls == [tool : {"task"}, args : PairTaskArgs]
PairSessionInfos ==
    {[id |-> "u1", parentID |-> "", title |-> <<"root", "task">>]}
    \cup [id : PairChildren, parentID : {"u1"}, title : Titles]

NextPair ==
    \/ \E session \in PairSessionInfos : SessionCreated841(PairBounds, session)
    \/ \E session \in PairSessionInfos : SessionCreated860(PairLazyBounds, session)
    \/ \E call \in PairToolCalls : ToolExecuteBefore841(PairBounds, "u1", call)
    \/ \E call \in PairToolCalls : ToolExecuteBefore860(PairLazyBounds, "u1", call)
    \/ SessionIdle("u1")

SpecPair == Init /\ [][NextPair]_vars

\* the host sends an event: to the event hook if the plugin returned one
HostSessionCreated(B, session) ==
    IF "event" \in Hooks THEN SessionCreated841(B, session) ELSE UNCHANGED vars

HostSessionIdle(sessionID) ==
    IF "event" \in Hooks THEN SessionIdle(sessionID) ELSE UNCHANGED vars

HostSessionError(sessionID, error) ==
    IF "event" \in Hooks THEN SessionError(sessionID, error) ELSE UNCHANGED vars

HostMessagePartUpdated(part) ==
    IF "event" \in Hooks THEN MessagePartUpdated(part) ELSE UNCHANGED vars

\* the host runs a tool: it issues a call id, and calls the hooks it has
HostToolBefore(B, sessionID, call) ==
    IF "tool.execute.before" \in Hooks THEN ToolExecuteBefore841(B, sessionID, call)
    ELSE /\ nCalls < B.calls
         /\ nCalls' = nCalls + 1
         /\ UNCHANGED <<HONEYCOMB_API_KEY, version, now, spans, nSpans, exported, misuse,
                        sessionSpans, phaseSpans, toolExecutions,
                        pendingSubagentContext, mainSessionId, threw, cleanupInterval>>

HostToolAfter(callID, tool) ==
    IF "tool.execute.after" \in Hooks THEN ToolExecuteAfter(callID, tool)
    ELSE UNCHANGED vars

\* the interval timer fires, if it was set
TimerFires == IF cleanupInterval THEN Cleanup ELSE UNCHANGED vars

InitNoKey == Loaded(FALSE) /\ version = "8.4.1"

\* revision 8.4.1 loaded without the key, under every event of the host
NextNoKey ==
    \/ \E session \in SessionInfos : HostSessionCreated(NoKeyBounds, session)
    \/ \E sessionID \in SessionIds : HostSessionIdle(sessionID)
    \/ \E sessionID \in SessionIds, error \in ErrorInfos :
          HostSessionError(sessionID, error)
    \/ \E part \in Parts(NoKeyBounds) : HostMessagePartUpdated(part)
    \/ \E sessionID \in SessionIds, call \in ToolCalls :
          HostToolBefore(NoKeyBounds, sessionID, call)
    \/ \E callID \in 1..NoKeyCalls, tool \in Tools : HostToolAfter(callID, tool)
    \/ TimerFires
    \/ Tick(NoKeyBounds)

SpecNoKey == InitNoKey /\ [][NextNoKey]_vars

----------------------------------------------------------------------------
(* Properties.  A step of a handler is told by the handler's action; the   *)
(* spans a step starts are those numbered above nSpans, the spans it ends   *)
(* are in exported' in the order of their end() calls.                      *)

\* session.created, of the revision that runs (it always starts a span)
CreatedStep(session) ==
    /\ nSpans' > nSpans
    /\ nCalls' = nCalls
    /\ \/ SessionCreated841(Bounds, session)
       \/ SessionCreated860(LazyBounds, session)

\* tool.execute.before for a tool of a session, of the revision that runs
ToolStartStep(sessionID, tool) ==
    \E call \in ToolCalls :
        /\ nCalls' = nCalls + 1
        /\ call.tool = tool
        /\ \/ ToolExecuteBefore841(Bounds, sessionID, call)
           \/ ToolExecuteBefore860(LazyBounds, sessionID, call)

\* session.idle
IdleStep(sessionID) ==
    /\ nSpans' = nSpans
    /\ nCalls' = nCalls
    /\ now' = now
    /\ MapHas(sessionSpans, sessionID) => ~MapHas(sessionSpans', sessionID)
    /\ SessionIdle(sessionID)

IsUnitSpan(sp) == sp.name[1] \in {"session", "agent"}
IsPhaseSpan(sp) == sp.name[1] = "phase"

\* the spans a record of one of the two span tables holds
HeldSpans ==
    {sessionSpans[i].v.span : i \in 1..Len(sessionSpans)}
    \cup {phaseSpans[i].v.span : i \in 1..Len(phaseSpans)}

----------------------------------------------------------------------------
\* C1: a session.created for an id whose session record is still open is
\* ignored: it starts no span, and the record held for the id afterwards is
\* the record of the first event (span, start time, tool aggregate).
C1_DuplicateCreatedIgnored ==
    [][\A session \in SessionInfos :
          (MapHas(sessionSpans, session.id) /\ CreatedStep(session))
          => /\ nSpans' = nSpans
             /\ MapHas(sessionSpans', session.id)
             /\ MapGet(sessionSpans', session.id) = MapGet(sessionSpans, session.id)]_vars

\* a session span is open that no record holds: its record was replaced
C1_FirstSpanReplaced ==
    \E id \in DOMAIN spans :
        /\ IsUnitSpan(spans[id])
        /\ id \notin HeldSpans
        /\ MapHas(sessionSpans, spans[id].sessionId)
        /\ MapGet(sessionSpans, spans[id].sessionId).span > id

----------------------------------------------------------------------------
\* the spans a step starts
StartedSpans == (nSpans + 1)..nSpans'

\* 8.6.0 starts a span for the parent it resolves when it has no record of it
LazyParentStarted(session) ==
    LET pendingFound == session.parentID # ""
                        /\ MapHas(pendingSubagentContext, session.parentID)
        isSubAgent == pendingFound \/ extractSubagentTypeFromTitle(session.title) # ""
        parentId == IF session.parentID # "" THEN session.parentID ELSE mainSessionId
    IN  /\ version = "8.6.0"
        /\ isSubAgent
        /\ parentId # ""
        /\ ~MapHas(sessionSpans, parentId)

\* session.created leaves a record for the id whose span it has started: one
\* span for a root session; for a subagent a phase span and the agent span as
\* its child, and in 8.6.0 one more for a parent without a record
CreatedOpensUnit(session) ==
    LET unit == MapGet(sessionSpans', session.id)
        delegated == unit.agentType # ""
        phase == MapGet(phaseSpans', session.id)
    IN  /\ MapHas(sessionSpans', session.id)
        /\ unit.span = nSpans'
        /\ unit.span \in StartedSpans
        /\ unit.span \in DOMAIN spans'
        /\ IsUnitSpan(spans'[unit.span])
        /\ spans'[unit.span].sessionId = session.id
        /\ Cardinality(StartedSpans) =
              (IF delegated THEN 2 ELSE 1) + (IF LazyParentStarted(session) THEN 1 ELSE 0)
        /\ delegated =>
              /\ MapHas(phaseSpans', session.id)
              /\ phase.span = unit.span - 1
              /\ IsPhaseSpan(spans'[phase.span])
              /\ spans'[unit.span].parentSpanId = phase.span
        /\ exported' = << >>

\* session.idle of a session with a record ends the record's span with
\* status OK and success, after the phase span of the id if there is one, and
\* ends no other span
IdleClosesUnit(sessionID) ==
    LET unit == MapGet(sessionSpans, sessionID)
        hasPhase == MapHas(phaseSpans, sessionID)
        last == exported'[Len(exported')]
    IN  /\ Len(exported') = IF hasPhase THEN 2 ELSE 1
        /\ last.id = unit.span
        /\ IsUnitSpan(last)
        /\ last.status = "OK"
        /\ last.success = "true"
        /\ hasPhase =>
              /\ exported'[1].id = MapGet(phaseSpans, sessionID).span
              /\ IsPhaseSpan(exported'[1])
              /\ exported'[1].status = "OK"
        /\ unit.span \notin DOMAIN spans'
        /\ ~MapHas(sessionSpans', sessionID)
        /\ ~MapHas(phaseSpans', sessionID)

\* C2: session.created starts exactly one session span, held by the record
\* of the id (a subagent's with its phase span as parent), and session.idle
\* of an id with a record ends exactly that record's span, with status OK
\* (after the id's phase span, if any).
C2_UnitSpanOpenedAndClosed ==
    [][/\ \A session \in SessionInfos :
             CreatedStep(session) => CreatedOpensUnit(session)
       /\ \A sessionID \in SessionIds :
             (MapHas(sessionSpans, sessionID) /\ IdleStep(sessionID))
             => IdleClosesUnit(sessionID)]_vars

\* C2 as stated: one span started by the creation, one span ended by the idle
C2_ExactlyOneSpan ==
    [][/\ \A session \in SessionInfos :
             CreatedStep(session) => Cardinality(StartedSpans) = 1
       /\ \A sessionID \in SessionIds :
             (MapHas(sessionSpans, sessionID) /\ IdleStep(sessionID))
             => /\ Len(exported') = 1
                /\ exported'[1].status = "OK"]_vars

\* a subagent has gone idle: its phase span and then its agent span ended OK,
\* and a root session went idle before it
C2_SubagentWentIdle ==
    /\ Len(exported) = 2
    /\ IsPhaseSpan(exported[1])
    /\ exported[2].name[1] = "agent"
    /\ exported[2].status = "OK"
    /\ exported[2].success = "true"
    /\ nSpans > 2

----------------------------------------------------------------------------
\* the task tool naming a subagent type stores, under the session's id, a
\* snapshot of the context of the span the session's record holds
HandoffStored(sessionID) ==
    LET unit == MapGet(sessionSpans', sessionID)
        pending == MapGet(pendingSubagentContext', sessionID)
    IN  /\ MapHas(sessionSpans', sessionID)
        /\ MapHas(pendingSubagentContext', sessionID)
        /\ pending.parentSpanContext = SpanContextOf([spans |-> spans'], unit.span)
        /\ pending.createdAt = now

\* session.created with a parentID under which a snapshot is stored
HandoffConsumed(session) ==
    LET pending == MapGet(pendingSubagentContext, session.parentID)
        phase == MapGet(phaseSpans', session.id)
        unit == MapGet(sessionSpans', session.id)
    IN  /\ MapHas(phaseSpans', session.id)
        /\ MapHas(sessionSpans', session.id)
        /\ spans'[phase.span].name = <<"phase", getPhaseForAgent(pending.subagentType)>>
        /\ spans'[phase.span].parentSpanId = pending.parentSpanContext.spanId
        /\ spans'[phase.span].traceId = pending.parentSpanContext.traceId
        /\ spans'[unit.span].name = <<"agent", pending.subagentType>>
        /\ spans'[unit.span].parentSpanId = phase.span
        /\ spans'[unit.span].traceId = pending.parentSpanContext.traceId
        /\ spans'[unit.span].attrs.task_description = pending.taskDescription
        /\ ~MapHas(pendingSubagentContext', session.parentID)

\* C3: when session P starts the task tool naming a subagent type, the
\* context of P's span is stored under P; a session.created with parentID P
\* while that entry is present starts a phase span whose parent is the stored
\* context (so in P's trace), starts the session's span as a child of that
\* phase span, and deletes the entry stored under P.
C3_HandoffConsumedOnce ==
    [][/\ \A sessionID \in SessionIds :
             (ToolStartStep(sessionID, "task") /\ ~threw'
              /\ MapHas(sessionSpans', sessionID))
             => HandoffStored(sessionID)
       /\ \A session \in SessionInfos :
             (/\ session.parentID # ""
              /\ MapHas(pendingSubagentContext, session.parentID)
              /\ CreatedStep(session))
             => HandoffConsumed(session)]_vars

\* a subagent session is open whose span carries the task description of a
\* consumed snapshot, under a phase span in the trace of its parent's span
C3_ChildUnderHandoff ==
    \E i \in 1..Len(sessionSpans) :
        LET unit == sessionSpans[i].v
            parent == spans[unit.span].attrs.parent_id
        IN  /\ unit.span \in DOMAIN spans
            /\ spans[unit.span].attrs.task_description # ""
            /\ MapHas(phaseSpans, sessionSpans[i].k)
            /\ spans[unit.span].parentSpanId = MapGet(phaseSpans, sessionSpans[i].k).span
            /\ MapHas(sessionSpans, parent)
            /\ spans[unit.span].traceId = MapGet(sessionSpans, parent).ctx.traceId
            /\ ~MapHas(pendingSubagentContext, parent)

----------------------------------------------------------------------------
\* C4: a session.created for a subagent whose parent has no record any more
\* does not throw, starts a span for the parent (lazy_created) and makes the
\* phase span of the subagent a child of that span.
C4_LateChildUnderLazyRoot ==
    [][\A session \in SessionInfos :
          (/\ session.parentID # ""
           /\ ~MapHas(sessionSpans, session.parentID)
           /\ CreatedStep(session)
           /\ MapGet(sessionSpans', session.id).agentType # "")
          => /\ ~threw'
             /\ MapHas(sessionSpans', session.parentID)
             /\ LET root == MapGet(sessionSpans', session.parentID).span
                    phase == MapGet(phaseSpans', session.id).span
                IN  /\ root \in StartedSpans
                    /\ spans'[root].attrs.lazy_created
                    /\ spans'[phase].parentSpanId = root
                    /\ spans'[phase].traceId = spans'[root].traceId]_vars

\* 8.6.0: the same with the parent's span ended and its snapshot still stored
C4_LateChildUnderLazyRoot860 ==
    [][\A session \in SessionInfos :
          (/\ version = "8.6.0"
           /\ session.parentID # ""
           /\ ~MapHas(sessionSpans, session.parentID)
           /\ CreatedStep(session)
           /\ MapGet(sessionSpans', session.id).agentType # "")
          => LET root == MapGet(sessionSpans', session.parentID).span
                 phase == MapGet(phaseSpans', session.id).span
             IN  spans'[phase].parentSpanId = root]_vars

----------------------------------------------------------------------------
\* the aggregate's count of a tool in the record of a session, 0 without one
CountOf(table, sessionID, tool) ==
    IF MapHas(table, sessionID)
    THEN countOfTool(MapGet(table, sessionID).toolAggregate.counts, tool)
    ELSE 0

\* C5: while a session has a record, the count of every tool in its
\* aggregate is the number of tool.execute.before calls received for the
\* session and the tool: a step that leaves the session with a record
\* changes a count by one when it is such a call and not at all otherwise.
C5_CountsEqualStarts ==
    [][\A sessionID \in SessionIds, tool \in Tools :
          MapHas(sessionSpans', sessionID)
          => CountOf(sessionSpans', sessionID, tool) =
                CountOf(sessionSpans, sessionID, tool)
                + (IF ToolStartStep(sessionID, tool) THEN 1 ELSE 0)]_vars

\* the same of every step but a session.created for an id that has a record
C5_CountsButDuplicateCreated ==
    [][\A sessionID \in SessionIds, tool \in Tools :
          (/\ MapHas(sessionSpans', sessionID)
           /\ ~(/\ MapHas(sessionSpans, sessionID)
                /\ nSpans' > nSpans
                /\ MapGet(sessionSpans', sessionID).span > MapGet(sessionSpans, sessionID).span))
          => CountOf(sessionSpans', sessionID, tool) =
                CountOf(sessionSpans, sessionID, tool)
                + (IF ToolStartStep(sessionID, tool) THEN 1 ELSE 0)]_vars

----------------------------------------------------------------------------
(* The cleanup *)

\* a run of performTTLCleanup
CleanupStep ==
    /\ nSpans' = nSpans
    /\ nCalls' = nCalls
    /\ now' = now
    /\ Cleanup

EventsOf(table, sessionID) == spans'[MapGet(table, sessionID).span].events

\* a tool execution the cleanup finds older than TOOL_TTL_MS is deleted, with
\* an event for it on the span of its session's record if there is one
ToolExecutionSwept(callId, execution) ==
    IF now - execution.startTime > TOOL_TTL_MS
    THEN /\ ~MapHas(toolExecutions', callId)
         /\ MapHas(sessionSpans', execution.sessionID)
            => Event("cleanup.tool_ttl_expired", execution.tool, callId, 0)
                  \in EventsOf(sessionSpans', execution.sessionID)
    ELSE /\ MapHas(toolExecutions', callId)
         /\ MapGet(toolExecutions', callId) = execution

\* the same of a stored context older than PENDING_CONTEXT_TTL_MS
PendingContextSwept(sessionID, pending) ==
    IF now - pending.createdAt > PENDING_CONTEXT_TTL_MS
    THEN /\ ~MapHas(pendingSubagentContext', sessionID)
         /\ MapHas(sessionSpans', pending.parentSessionId)
            => Event("cleanup.pending_context_ttl_expired", pending.subagentType, 0, 0)
                  \in EventsOf(sessionSpans', pending.parentSessionId)
    ELSE /\ MapHas(pendingSubagentContext', sessionID)
         /\ MapGet(pendingSubagentContext', sessionID) = pending

\* C6: after a run of the cleanup no tool execution older than TOOL_TTL_MS
\* and no stored context older than PENDING_CONTEXT_TTL_MS is in its Map, the
\* younger ones are all there, and the span of the owning session's record,
\* if the session has a record after the run, carries the cleanup event of
\* every entry the run deleted.
C6_StaleEntriesSwept ==
    [][CleanupStep
       => /\ \A i \in 1..Len(toolExecutions) :
                ToolExecutionSwept(toolExecutions[i].k, toolExecutions[i].v)
          /\ \A i \in 1..Len(pendingSubagentContext) :
                PendingContextSwept(pendingSubagentContext[i].k,
                                    pendingSubagentContext[i].v)
          /\ MapKeys(toolExecutions') \subseteq MapKeys(toolExecutions)
          /\ MapKeys(pendingSubagentContext') \subseteq MapKeys(pendingSubagentContext)]_vars

\* the cleanup has deleted a tool execution and a stored context of a session
\* whose span is open and carries the event of each
C6_BothMarkersOnLiveSpan ==
    /\ toolExecutions = << >>
    /\ pendingSubagentContext = << >>
    /\ \E i \in 1..Len(sessionSpans) :
          LET sp == spans[sessionSpans[i].v.span]
          IN  /\ \E e \in sp.events : e.name = "cleanup.tool_ttl_expired"
              /\ \E e \in sp.events : e.name = "cleanup.pending_context_ttl_expired"

----------------------------------------------------------------------------
\* a session record the cleanup finds older than SESSION_TTL_MS is deleted
\* and its span ended with status ERROR and the reason ttl_expired; a
\* younger one stays as it is, its span open
SessionSwept(sessionID, sessionData) ==
    IF now - sessionData.startTime > SESSION_TTL_MS
    THEN /\ ~MapHas(sessionSpans', sessionID)
         /\ sessionData.span \notin DOMAIN spans'
         /\ \E j \in 1..Len(exported') :
               /\ exported'[j].id = sessionData.span
               /\ exported'[j].status = "ERROR"
               /\ exported'[j].cleanup_reason = "ttl_expired"
    ELSE /\ MapHas(sessionSpans', sessionID)
         /\ MapGet(sessionSpans', sessionID) = sessionData
         /\ sessionData.span \in DOMAIN spans'

\* C7: a session that was created and has had no idle and no error event
\* since is, by the first run of the cleanup more than SESSION_TTL_MS after
\* its creation and by none before, removed from sessionSpans, its span
\* ended with status ERROR and the cleanup reason ttl_expired.
C7_ExpiredSessionClosed ==
    [][CleanupStep
       => \A i \in 1..Len(sessionSpans) :
             SessionSwept(sessionSpans[i].k, sessionSpans[i].v)]_vars

\* the cleanup has ended the span of an expired session, and kept a session
\* that is exactly SESSION_TTL_MS old
C7_SessionExpired ==
    /\ \E j \in 1..Len(exported) :
          /\ IsUnitSpan(exported[j])
          /\ exported[j].status = "ERROR"
          /\ exported[j].cleanup_reason = "ttl_expired"
          /\ ~MapHas(sessionSpans, exported[j].sessionId)
    /\ \E i \in 1..Len(sessionSpans) :
          now - sessionSpans[i].v.startTime = SESSION_TTL_MS

----------------------------------------------------------------------------
\* C8: with time passing and the cleanup timer running, every span that is
\* started is ended at some time, whatever the host sends (stated of the
\* spans open at time 0, which the clock of the model outlasts by more than
\* SESSION_TTL_MS).
C8_EverySpanCloses ==
    \A id \in 1..LiveSpans :
        [](id \in DOMAIN spans /\ now = 0 => <>(id \notin DOMAIN spans))

\* no handler ends a span that no record of sessionSpans or phaseSpans holds
C8_UnheldSpanStaysOpen ==
    [][\A id \in DOMAIN spans : id \notin HeldSpans => id \in DOMAIN spans']_vars

\* every open span is held by a record
C8_OpenSpansHeld == DOMAIN spans \subseteq HeldSpans

----------------------------------------------------------------------------
----------------------------------------------------------------------------
\* the session span and the phase span of a subagent that has both
PhaseAndUnit(sessionID) ==
    /\ MapHas(sessionSpans, sessionID)
    /\ MapHas(phaseSpans, sessionID)
    /\ MapGet(sessionSpans, sessionID).span \in DOMAIN spans
    /\ spans[MapGet(sessionSpans, sessionID).span].parentSpanId =
          MapGet(phaseSpans, sessionID).span

\* index of the span in the order of the step's end() calls, 0 if not ended
EndIndex(id) ==
    IF \E j \in 1..Len(exported') : exported'[j].id = id
    THEN CHOOSE j \in 1..Len(exported') : exported'[j].id = id
    ELSE 0

PhaseEndsFirst(sessionID) ==
    LET unit == EndIndex(MapGet(sessionSpans, sessionID).span)
        phase == EndIndex(MapGet(phaseSpans, sessionID).span)
    IN  unit # 0 => (phase # 0 /\ phase < unit)

\* C10: whichever handler ends the session span of a subagent (idle, error,
\* the cleanup), it has ended the subagent's phase span before.
C10_PhaseClosedBeforeUnit ==
    [][\A sessionID \in SessionIds :
          PhaseAndUnit(sessionID) => PhaseEndsFirst(sessionID)]_vars

\* the same of every step that is no run of the cleanup
C10_PhaseFirstOnIdleAndError ==
    [][\A sessionID \in SessionIds :
          (PhaseAndUnit(sessionID) /\ ~CleanupStep) => PhaseEndsFirst(sessionID)]_vars

----------------------------------------------------------------------------
\* the unit spans a step starts that carry a task description
DescribedStarts ==
    {id \in StartedSpans : IsUnitSpan(spans'[id]) /\ spans'[id].attrs.task_description # ""}

\* C11: a stored context is read by at most one session.created, which
\* deletes it: the session.created that finds a context under its parentID
\* gives its type and description to the one agent span it starts and leaves
\* no entry under that key; a session.created that finds none starts no span
\* with a task description; and no step but a tool.execute.before puts an
\* entry into pendingSubagentContext or changes one.
C11_HandoffReadThenDeleted ==
    [][/\ \A session \in SessionInfos :
             CreatedStep(session)
             => IF session.parentID # "" /\ MapHas(pendingSubagentContext, session.parentID)
                THEN LET pending == MapGet(pendingSubagentContext, session.parentID)
                     IN  /\ ~MapHas(pendingSubagentContext', session.parentID)
                         /\ DescribedStarts = {nSpans'}
                         /\ spans'[nSpans'].attrs.task_description = pending.taskDescription
                         /\ spans'[nSpans'].attrs.agent_type = pending.subagentType
                ELSE /\ DescribedStarts = {}
                     /\ pendingSubagentContext' = pendingSubagentContext
       /\ \A i \in 1..Len(pendingSubagentContext') :
             LET e == pendingSubagentContext'[i]
             IN  (MapHas(pendingSubagentContext, e.k)
                  => MapGet(pendingSubagentContext, e.k) # e.v)
                 => nCalls' = nCalls + 1]_vars

\* after the session.created that consumed the stored context, a second
\* session.created for the same id found none: its span has no task
\* description, while the span of the first still carries the one it read
C11_SecondCreatedReadsNothing ==
    /\ pendingSubagentContext = << >>
    /\ nCalls > 0
    /\ \E a \in DOMAIN spans, b \in DOMAIN spans :
          /\ a < b
          /\ IsUnitSpan(spans[a]) /\ IsUnitSpan(spans[b])
          /\ spans[a].sessionId = spans[b].sessionId
          /\ spans[a].attrs.task_description # ""
          /\ spans[b].attrs.task_description = ""

----------------------------------------------------------------------------
\* C12: the sequence numbers given to the tool.execute.before calls of one
\* session id increase strictly with the order of the calls (call ids are
\* issued in that order): of two executions of a session that are both
\* pending, the later one has the larger sequence number.
C12_SequenceNumbersIncrease ==
    \A i, j \in 1..Len(toolExecutions) :
        (/\ toolExecutions[i].v.sessionID = toolExecutions[j].v.sessionID
         /\ toolExecutions[i].k < toolExecutions[j].k)
        => toolExecutions[i].v.sequenceNumber < toolExecutions[j].v.sequenceNumber

\* while a session id keeps the record it has, its counter of executions
\* never goes down, and a tool.execute.before raises it by exactly one
C12_IncreaseWithinRecord ==
    [][\A sessionID \in SessionIds :
          (/\ MapHas(sessionSpans, sessionID)
           /\ MapHas(sessionSpans', sessionID)
           /\ MapGet(sessionSpans', sessionID).span = MapGet(sessionSpans, sessionID).span)
          => LET before == MapGet(sessionSpans, sessionID).toolAggregate.executions
                 after == MapGet(sessionSpans', sessionID).toolAggregate.executions
             IN  /\ after \in {before, before + 1}
                 /\ after = before + 1 => nCalls' = nCalls + 1]_vars

\* two pending executions of one session carry the same sequence number
C12_NumberGivenTwice ==
    \E i, j \in 1..Len(toolExecutions) :
        /\ i # j
        /\ toolExecutions[i].v.sessionID = toolExecutions[j].v.sessionID
        /\ toolExecutions[i].v.sequenceNumber = toolExecutions[j].v.sequenceNumber

----------------------------------------------------------------------------
\* C13: every phase span is started under an explicit parent context (a
\* stored snapshot or the context of a parent session's span): no phase
\* span is the root of a trace.
C13_NoRootPhase ==
    \A id \in DOMAIN spans :
        IsPhaseSpan(spans[id]) => spans[id].parentSpanId # 0

\* the same of the session.created events that find a stored context under
\* their parentID or a record of the parent session
C13_PhaseUnderKnownParent ==
    [][\A session \in SessionInfos :
          (/\ session.parentID # ""
           /\ \/ MapHas(pendingSubagentContext, session.parentID)
              \/ MapHas(sessionSpans, session.parentID)
           /\ CreatedStep(session)
           /\ MapGet(sessionSpans', session.id).agentType # "")
          => LET phase == spans'[MapGet(phaseSpans', session.id).span]
             IN  /\ phase.id \in StartedSpans
                 /\ phase.parentSpanId # 0
                 /\ phase.traceId # phase.id]_vars

\* a phase span is open that is the root of its own trace
C13_PhaseIsTraceRoot ==
    \E id \in DOMAIN spans :
        /\ IsPhaseSpan(spans[id])
        /\ spans[id].parentSpanId = 0
        /\ spans[id].traceId = id

----------------------------------------------------------------------------
\* the tool.end and tool.error events of a call id on the spans that are open
EndMarkers(S, callID) ==
    {m \in (DOMAIN S) \X {"tool.end", "tool.error"} :
        \E e \in S[m[1]].events : e.callId = callID /\ e.name = m[2]}

\* the entries of a call id in the error logs of the session records
ErrorEntries(table, callID) ==
    {<<i, j>> \in (1..Len(table)) \X (1..SeqCalls) :
        /\ j <= Len(table[i].v.toolAggregate.errors)
        /\ table[i].v.toolAggregate.errors[j].callId = callID}

\* a step that ends the execution of a call by one of the two paths: it
\* takes the execution out of toolExecutions, puts one marker on the span of
\* the session's record, adds the duration to the record's total once, and
\* logs an error exactly when the marker is tool.error
EndedOnce(callID) ==
    LET execution == MapGet(toolExecutions, callID)
        new == EndMarkers(spans', callID) \ EndMarkers(spans, callID)
        marker == CHOOSE m \in new : TRUE
        before == MapGet(sessionSpans, execution.sessionID)
        after == MapGet(sessionSpans', execution.sessionID)
    IN  /\ MapHas(toolExecutions, callID)
        /\ ~MapHas(toolExecutions', callID)
        /\ Cardinality(new) = 1
        /\ EndMarkers(spans, callID) = {}
        /\ MapHas(sessionSpans, execution.sessionID)
        /\ marker[1] = before.span
        /\ after.toolAggregate.totalDurationMs =
              before.toolAggregate.totalDurationMs + (now - execution.startTime)
        /\ Cardinality(ErrorEntries(sessionSpans', callID)) =
              Cardinality(ErrorEntries(sessionSpans, callID))
              + (IF marker[2] = "tool.error" THEN 1 ELSE 0)

\* C14: the execution of a call is ended by the completion path
\* (tool.execute.after) or by the error path (message.part.updated with status
\* error), never by both, in whichever order the two arrive: a step that puts
\* an end marker of a call on a span or logs an error of it ends the
\* execution once and removes it from toolExecutions, and an execution gets
\* into toolExecutions only with a fresh call id.
C14_EndedByOnePath ==
    [][\A callID \in 1..SeqCalls :
          /\ (\/ EndMarkers(spans', callID) \ EndMarkers(spans, callID) # {}
              \/ Cardinality(ErrorEntries(sessionSpans', callID))
                    > Cardinality(ErrorEntries(sessionSpans, callID)))
             => EndedOnce(callID)
          /\ (MapHas(toolExecutions', callID) /\ ~MapHas(toolExecutions, callID))
             => (callID = nCalls + 1 /\ nCalls' = callID)]_vars

\* one session span carries the completion marker of one call and the error
\* marker of the other, with one logged error and both durations added
C14_BothPathsTaken ==
    /\ toolExecutions = << >>
    /\ \E i \in 1..Len(sessionSpans) :
          LET unit == sessionSpans[i].v
          IN  /\ \E c \in 1..SeqCalls : EndMarkers(spans, c) = {<<unit.span, "tool.end">>}
              /\ \E c \in 1..SeqCalls : EndMarkers(spans, c) = {<<unit.span, "tool.error">>}
              /\ Len(unit.toolAggregate.errors) = 1
              /\ unit.toolAggregate.totalDurationMs > 0

----------------------------------------------------------------------------
\* session.idle or session.error for the id
IdleOrErrorStep(sessionID) ==
    /\ nSpans' = nSpans
    /\ nCalls' = nCalls
    /\ now' = now
    /\ \/ SessionIdle(sessionID)
       \/ \E error \in ErrorInfos : SessionError(sessionID, error)

\* C15: a session.idle or session.error for an id that has no session
\* record and no phase record changes none of the four Maps, starts no span,
\* ends none, writes to none, and does not throw.
C15_UnknownIdIsNoOp ==
    [][\A sessionID \in SessionIds :
          (/\ ~MapHas(sessionSpans, sessionID)
           /\ ~MapHas(phaseSpans, sessionID)
           /\ IdleOrErrorStep(sessionID))
          => /\ UNCHANGED <<sessionSpans, phaseSpans, toolExecutions,
                           pendingSubagentContext, spans, nSpans>>
             /\ exported' = << >>
             /\ misuse' = {}
             /\ ~threw']_vars

\* an id has no record while another session is open, and a context stored
\* under the id and a tool execution of it are pending: the Maps an idle or
\* error for the id has to leave alone
C15_UnknownIdAmongRecords ==
    \E sessionID \in SessionIds :
        /\ ~MapHas(sessionSpans, sessionID)
        /\ ~MapHas(phaseSpans, sessionID)
        /\ MapHas(pendingSubagentContext, sessionID)
        /\ \E i \in 1..Len(toolExecutions) : toolExecutions[i].v.sessionID = sessionID
        /\ sessionSpans # << >>
        /\ spans # << >>

----------------------------------------------------------------------------
\* after the step the id has a session record in which the tool's count is
\* one more than before, and the call has its execution in toolExecutions
ToolStartRecorded(sessionID, tool) ==
    /\ MapHas(sessionSpans', sessionID)
    /\ CountOf(sessionSpans', sessionID, tool) = CountOf(sessionSpans, sessionID, tool) + 1
    /\ MapHas(toolExecutions', nCalls')
    /\ MapGet(toolExecutions', nCalls').sessionID = sessionID
    /\ MapGet(toolExecutions', nCalls').tool = tool

\* C16: after every tool.execute.before the id has a session record (one is
\* made when there was none), the count of the tool in it is incremented and
\* toolExecutions has an execution under the call id.
C16_ToolStartOpensUnit ==
    [][\A sessionID \in SessionIds, tool \in Tools :
          ToolStartStep(sessionID, tool) => ToolStartRecorded(sessionID, tool)]_vars

\* the same of revision 8.6.0 when the handler does not throw; a record it
\* makes holds a span started in the step and marked lazy_created
C16_LazyUnitInLaterRevision ==
    [][\A sessionID \in SessionIds, tool \in Tools :
          (version = "8.6.0" /\ ToolStartStep(sessionID, tool) /\ ~threw')
          => /\ ToolStartRecorded(sessionID, tool)
             /\ ~MapHas(sessionSpans, sessionID)
                => LET span == MapGet(sessionSpans', sessionID).span
                   IN  /\ StartedSpans = {span}
                       /\ spans'[span].attrs.lazy_created
                       /\ mainSessionId' = sessionID]_vars

\* revision 8.4.1 has received a tool.execute.before and has never had a
\* session record: the call left nothing behind
C16_ToolStartDropped ==
    /\ version = "8.4.1"
    /\ nCalls = 1
    /\ nSpans = 0
    /\ sessionSpans = << >>
    /\ toolExecutions = << >>

----------------------------------------------------------------------------
\* a run of the shutdown handler
ShutdownStep ==
    /\ ~cleanupInterval'
    /\ nSpans' = nSpans
    /\ nCalls' = nCalls
    /\ now' = now
    /\ Shutdown

\* C17: the sweep of the shutdown handler flushes every live span, whatever
\* the age of its record: after it sessionSpans and phaseSpans are empty and
\* no span is open.
C17_ShutdownFlushesAll ==
    [][ShutdownStep
       => /\ sessionSpans' = << >>
          /\ phaseSpans' = << >>
          /\ spans' = << >>]_vars

\* the sweep of the shutdown handler treats every session record as a run of
\* the timer does: it ends the span of a record older than SESSION_TTL_MS and
\* leaves a younger record and its span as they are
C17_ShutdownSweepsExpiredOnly ==
    [][ShutdownStep
       => \A i \in 1..Len(sessionSpans) :
             SessionSwept(sessionSpans[i].k, sessionSpans[i].v)]_vars

\* the shutdown handler has ended the span of an expired session and left
\* the record of a younger one, whose span is open
C17_YoungSpanLeftOpen ==
    /\ ~cleanupInterval
    /\ exported # << >>
    /\ exported[1].cleanup_reason = "ttl_expired"
    /\ \E i \in 1..Len(sessionSpans) : sessionSpans[i].v.span \in DOMAIN spans

----------------------------------------------------------------------------
\* C18: no handler throws, whatever event it receives, a tool.execute.before
\* without arguments, a tool part without state and a message with partial
\* token data included.
C18_NoHandlerThrows == ~threw

\* message.updated has thrown in the middle of its token attributes: the
\* span has tokens.reasoning and lacks tokens.cache.read, and the message is
\* counted while its tokens are not
C18_ThrewOnPartialTokens ==
    /\ threw
    /\ \E i \in 1..Len(sessionSpans) :
          LET unit == sessionSpans[i].v
          IN  /\ unit.span \in DOMAIN spans
              /\ spans[unit.span].attrs.tokens_reasoning = PartialTokens.reasoning
              /\ spans[unit.span].attrs.tokens_cache_read = -1
              /\ unit.messageCount = 1
              /\ unit.cumulativeInputTokens = 0

\* every handler returns normally when the host sends the arguments of the
\* tool, the state of the part and the cache counts of the tokens
C18_ThrowsOnAbsentFieldOnly ==
    [][threw'
       => \/ \E sessionID \in SessionIds, call \in ToolCalls :
                /\ ~call.args.present
                /\ nCalls' = nCalls + 1
                /\ ToolExecuteBefore841(MsgBounds, sessionID, call)
          \/ \E part \in Parts(MsgBounds) :
                ~part.state.present /\ part.type = "tool" /\ MessagePartUpdated(part)
          \/ \E message \in Messages :
                /\ message.tokens.present
                /\ ~message.tokens.cache.present
                /\ MessageUpdated(message)]_vars

----------------------------------------------------------------------------
\* the spans held by the records of a pair of span tables
HeldBy(sessions, phases) ==
    {sessions[i].v.span : i \in 1..Len(sessions)}
    \cup {phases[i].v.span : i \in 1..Len(phases)}

\* C19: in every interleaving of runs of the cleanup with the event
\* handlers no span is ended twice and no record is finalized twice: no
\* handler calls end() on an ended span; every span a step ends was open and
\* held by a record before the step, is ended once in it, and is held by no
\* record after it; an ended span stays ended; and no record holds an ended
\* span.
C19_NoSpanEndedTwice ==
    [][/\ "end" \notin misuse'
       /\ \A j \in 1..Len(exported') :
             /\ exported'[j].id \in DOMAIN spans
             /\ exported'[j].id \in HeldSpans
             /\ exported'[j].id \notin DOMAIN spans'
             /\ exported'[j].id \notin HeldBy(sessionSpans', phaseSpans')
             /\ \A h \in 1..Len(exported') : h # j => exported'[h].id # exported'[j].id
       /\ \A id \in 1..nSpans : id \notin DOMAIN spans => id \notin DOMAIN spans'
       /\ HeldBy(sessionSpans', phaseSpans') \subseteq DOMAIN spans']_vars

\* a run of the cleanup has marked the open span of one session for an
\* expired tool execution, and then session.idle has ended the span of
\* another session, in the same instant
C19_IdleAfterSweep ==
    /\ Len(exported) = 1
    /\ exported[1].status = "OK"
    /\ \E i \in 1..Len(sessionSpans) :
          /\ sessionSpans[i].k # exported[1].sessionId
          /\ \E e \in spans[sessionSpans[i].v.span].events :
                e.name = "cleanup.tool_ttl_expired"

\* a run of the cleanup has ended the span of an expired session while the
\* record of a younger session stays, and no further span can be started
C19_SweepAfterEvents ==
    /\ Len(exported) = 1
    /\ exported[1].cleanup_reason = "ttl_expired"
    /\ sessionSpans # << >>
    /\ nSpans = TtlSpans
    /\ Cardinality(DOMAIN spans) = 1

----------------------------------------------------------------------------
\* the tools the aggregate of the session's record has a start of
StartedTools(sessionID) ==
    {tool \in Tools : CountOf(sessionSpans, sessionID, tool) > 0}

\* the summary names each started tool once with its count, the larger count
\* first, and nothing else; it is "none" when no tool was started
SummaryLists(summary, sessionID) ==
    LET started == StartedTools(sessionID)
        n == Cardinality(started)
        orders == {f \in [1..n -> started] : \A i, j \in 1..n : i # j => f[i] # f[j]}
    IN  IF started = {} THEN summary = "none"
        ELSE \E f \in orders :
                /\ \A i \in 1..(n - 1) :
                      CountOf(sessionSpans, sessionID, f[i])
                         >= CountOf(sessionSpans, sessionID, f[i + 1])
                /\ summary =
                      JoinComma([i \in 1..n |->
                          f[i] \o ":" \o ToString(CountOf(sessionSpans, sessionID, f[i]))])

\* C20: the span session.idle closes for a session with a record has
\* success true, a tools.total_count equal to the number of tool starts the
\* record's aggregate has counted, and a tools.summary that lists every
\* started tool with its count.
C20_IdleFlushesAggregate ==
    [][\A sessionID \in SessionIds :
          (MapHas(sessionSpans, sessionID) /\ IdleStep(sessionID))
          => LET unit == MapGet(sessionSpans, sessionID)
                 closed == exported'[Len(exported')]
             IN  /\ closed.id = unit.span
                 /\ closed.success = "true"
                 /\ closed.total_count = unit.toolAggregate.executions
                 /\ closed.total_count =
                       CountOf(sessionSpans, sessionID, "read")
                       + CountOf(sessionSpans, sessionID, "task")
                 /\ SummaryLists(closed.summary, sessionID)]_vars

\* session u1, a root session, has gone idle after one start of read that
\* is no longer pending: its span closed with total_count 1, summary
\* "read:1" and success true
C20_ReadOnceThenIdle ==
    /\ nCalls = 1
    /\ toolExecutions = << >>
    /\ Len(exported) = 1
    /\ exported[1].name = <<"session", "main">>
    /\ exported[1].sessionId = "u1"
    /\ exported[1].status = "OK"
    /\ exported[1].success = "true"
    /\ exported[1].total_count = 1
    /\ exported[1].summary = "read:1"

\* a session has gone idle after a start of each of two tools
C20_TwoToolsListed ==
    /\ exported # << >>
    /\ exported[Len(exported)].total_count = 2
    /\ exported[Len(exported)].summary \in {"read:1,task:1", "task:1,read:1"}
    /\ exported[Len(exported)].success = "true"

----------------------------------------------------------------------------
\* the record session.created leaves for the id is that of a subagent
ClassifiedDelegated(session) ==
    /\ MapHas(sessionSpans', session.id)
    /\ MapGet(sessionSpans', session.id).agentType # ""
    /\ MapHas(phaseSpans', session.id)
    /\ MapGet(phaseSpans', session.id).span \in StartedSpans

ParentHasHandoff(session) ==
    session.parentID # "" /\ MapHas(pendingSubagentContext, session.parentID)

ParentHasRecord(session) ==
    session.parentID # "" /\ MapHas(sessionSpans, session.parentID)

TitleNamesSubagent(session) == extractSubagentTypeFromTitle(session.title) # ""

\* C21: session.created classifies the session as a subagent exactly when
\* its parentID has a stored context or a session record, or else its
\* title names a subagent; as a root session only when none of these holds.
C21_DelegatedByParentOrTitle ==
    [][\A session \in SessionInfos :
          CreatedStep(session)
          => (ClassifiedDelegated(session)
              <=> \/ ParentHasHandoff(session)
                  \/ ParentHasRecord(session)
                  \/ TitleNamesSubagent(session))]_vars

\* the same without the record of the parent: a stored context or the title
C21_DelegatedByHandoffOrTitle ==
    [][\A session \in SessionInfos :
          CreatedStep(session)
          => (ClassifiedDelegated(session)
              <=> (ParentHasHandoff(session) \/ TitleNamesSubagent(session)))]_vars

----------------------------------------------------------------------------
\* the id the subagent is attached to: its parentID, any other id without one
ParentCandidates(session) ==
    IF session.parentID # "" THEN {session.parentID} ELSE SessionIds \ {session.id}

\* after the step the parent has a record, whose span was open before or is
\* started in the step and marked lazy_created, and the phase span of the
\* subagent is in the trace of that span
ParentRecordCarriesChild(session, parent) ==
    LET unit == MapGet(sessionSpans', parent)
        phase == spans'[MapGet(phaseSpans', session.id).span]
    IN  /\ MapHas(sessionSpans', parent)
        /\ unit.span \in DOMAIN spans'
        /\ \/ MapHas(sessionSpans, parent) /\ MapGet(sessionSpans, parent).span = unit.span
           \/ unit.span \in StartedSpans /\ spans'[unit.span].attrs.lazy_created
        /\ phase.traceId = spans'[unit.span].traceId
        /\ phase.parentSpanId # 0

\* C22: when session.created classifies a session as a subagent and finds
\* no stored context for it, the parent has a session record afterwards (one
\* it had, or one made on demand and marked lazy_created) and the phase span
\* of the subagent is in the trace of the parent's span.
C22_ParentRecordForDelegated ==
    [][\A session \in SessionInfos :
          (/\ CreatedStep(session)
           /\ ClassifiedDelegated(session)
           /\ ~ParentHasHandoff(session))
          => \E parent \in ParentCandidates(session) :
                ParentRecordCarriesChild(session, parent)]_vars

\* the same of revision 8.6.0 for a session.created that names its parent
C22_LazyParentInLaterRevision ==
    [][\A session \in SessionInfos :
          (/\ version = "8.6.0"
           /\ session.parentID # ""
           /\ CreatedStep(session)
           /\ ClassifiedDelegated(session)
           /\ ~ParentHasHandoff(session))
          => ParentRecordCarriesChild(session, session.parentID)]_vars

\* the only spans ever started are the phase and agent span of a subagent
\* whose phase names a parent that has no record: the phase is a trace root
C22_ChildOfUnknownParent ==
    /\ nSpans = 2
    /\ nCalls = 0
    /\ \E id \in DOMAIN spans :
          /\ IsPhaseSpan(spans[id])
          /\ spans[id].attrs.parent_id # ""
          /\ ~MapHas(sessionSpans, spans[id].attrs.parent_id)
          /\ spans[id].parentSpanId = 0

----------------------------------------------------------------------------
\* the previews held by the tool execution records and the tool.start events
RecordedPreviews ==
    {toolExecutions[i].v.argsPreview : i \in DOMAIN toolExecutions}
    \cup {e.args_preview : e \in {x \in UNION {spans[id].events : id \in DOMAIN spans} :
                                     x.name = "tool.start"}}

\* C23: the argument preview of every tool start, in the tool execution
\* record and on the tool.start event, has at most 200 characters, whatever
\* the arguments are.
C23_PreviewWithinCap ==
    \A preview \in RecordedPreviews : Len(preview) <= ARGS_PREVIEW_CAP

\* the preview of a tool other than task, started in a session that has a
\* record with arguments that have no description, is the serialized
\* arguments cut at 200 characters
C23_SerializedPreviewWithinCap ==
    [][\A sessionID \in SessionIds, call \in LongToolCalls :
          (/\ nCalls' = nCalls + 1
           /\ MapHas(sessionSpans, sessionID)
           /\ call.tool # "task"
           /\ call.args.description = ""
           /\ ToolExecuteBefore841(PreviewBounds, sessionID, call))
          => /\ MapHas(toolExecutions', nCalls')
             /\ LET preview == MapGet(toolExecutions', nCalls').argsPreview
                IN  /\ Len(preview) <= ARGS_PREVIEW_CAP
                    /\ Len(JSONstringify(call.args)) > ARGS_PREVIEW_CAP
                          => Len(preview) = ARGS_PREVIEW_CAP]_vars

\* a task invocation is recorded with a preview longer than 200 characters,
\* in its record and on its tool.start event
C23_LongTaskPreviewRecorded ==
    \E i \in DOMAIN toolExecutions :
       /\ toolExecutions[i].v.tool = "task"
       /\ Len(toolExecutions[i].v.argsPreview) > ARGS_PREVIEW_CAP
       /\ \E id \in DOMAIN spans : \E e \in spans[id].events :
             /\ e.name = "tool.start"
             /\ e.callId = toolExecutions[i].v.callId
             /\ e.args_preview = toolExecutions[i].v.argsPreview

\* a tool other than task is recorded with its description, longer than 200
\* characters, as the preview
C23_LongDescriptionRecorded ==
    \E i \in DOMAIN toolExecutions :
       /\ toolExecutions[i].v.tool # "task"
       /\ toolExecutions[i].v.argsPreview = LongText

----------------------------------------------------------------------------
\* C24: the error log of a session's tool aggregate never holds more than 50
\* entries, however many tool errors are reported for the session.
C24_ErrorLogWithinCap ==
    \A i \in DOMAIN sessionSpans :
       Len(sessionSpans[i].v.toolAggregate.errors) <= ERRORS_DETAIL_CAP

\* tools.errors_detail of a closed session span holds at most 50 entries
C24_ErrorsDetailWithinCap ==
    \A i \in DOMAIN exported : exported[i].errors_kept <= ERRORS_DETAIL_CAP

\* a session span is closed with more than 50 errors counted, all of them
\* in the log of its record, of which tools.errors_detail keeps 50
C24_ClosedWithLongerLog ==
    \E i \in DOMAIN exported :
       /\ IsUnitSpan(exported[i])
       /\ exported[i].error_count > ERRORS_DETAIL_CAP
       /\ exported[i].errors_kept = ERRORS_DETAIL_CAP

----------------------------------------------------------------------------
\* the tool.error events on a span
ErrorMarkers(id) == {e \in spans[id].events : e.name = "tool.error"}

\* C25: a tool error does not fail the session: a session.idle for a session
\* whose record has logged one or more tool errors ends the session span with
\* status OK and success true, and with a tools.error_count that is the
\* number of errors logged, one for each tool.error event on the span.
C25_ToolErrorKeepsSuccess ==
    [][\A sessionID \in SessionIds :
          (/\ MapHas(sessionSpans, sessionID)
           /\ Len(MapGet(sessionSpans, sessionID).toolAggregate.errors) >= 1
           /\ IdleStep(sessionID))
          => LET unit == MapGet(sessionSpans, sessionID)
                 last == exported'[Len(exported')]
             IN  /\ Len(exported') >= 1
                 /\ last.id = unit.span
                 /\ last.status = "OK"
                 /\ last.success = "true"
                 /\ last.error_count = Len(unit.toolAggregate.errors)
                 /\ last.error_count = Cardinality(ErrorMarkers(unit.span))]_vars

\* session.idle has ended a session span with status OK and success true
\* that counts two tool errors
C25_IdleAfterTwoToolErrors ==
    \E i \in DOMAIN exported :
       /\ IsUnitSpan(exported[i])
       /\ exported[i].status = "OK"
       /\ exported[i].success = "true"
       /\ exported[i].error_count = SeqCalls

----------------------------------------------------------------------------
\* session.error for the id with the error the event carries
ErrorStep(sessionID, error) ==
    /\ nSpans' = nSpans
    /\ nCalls' = nCalls
    /\ now' = now
    /\ SessionError(sessionID, error)

\* session.error of a session with a record ends the record's span with
\* status ERROR and success false, after the phase span of the id if there is
\* one, ended with status ERROR too, deletes both records and does not throw
ErrorClosesUnit(sessionID) ==
    LET unit == MapGet(sessionSpans, sessionID)
        hasPhase == MapHas(phaseSpans, sessionID)
        last == exported'[Len(exported')]
    IN  /\ Len(exported') = IF hasPhase THEN 2 ELSE 1
        /\ last.id = unit.span
        /\ IsUnitSpan(last)
        /\ last.status = "ERROR"
        /\ last.success = "false"
        /\ hasPhase =>
              /\ exported'[1].id = MapGet(phaseSpans, sessionID).span
              /\ IsPhaseSpan(exported'[1])
              /\ exported'[1].status = "ERROR"
              /\ exported'[1].success = "false"
        /\ unit.span \notin DOMAIN spans'
        /\ ~MapHas(sessionSpans', sessionID)
        /\ ~MapHas(phaseSpans', sessionID)
        /\ ~threw'

\* the span the step ends last carries an error name and an error message
ErrorDetailRecorded ==
    LET last == exported'[Len(exported')]
    IN  /\ last.error_name # ""
        /\ last.error_message # ""

\* C26: a session.error for a session with a record ends the session span
\* with status ERROR, success false and the error's name and message, after
\* ending the id's phase span, if it has one, with status ERROR; it deletes
\* both records and throws nothing.
C26_ErrorClosesUnitWithDetail ==
    [][\A sessionID \in SessionIds, error \in ErrorInfos :
          (MapHas(sessionSpans, sessionID) /\ ErrorStep(sessionID, error))
          => (ErrorClosesUnit(sessionID) /\ ErrorDetailRecorded)]_vars

\* the same, with the name and the message recorded when the event carries an
\* error
C26_ErrorClosesUnit ==
    [][\A sessionID \in SessionIds, error \in ErrorInfos :
          (MapHas(sessionSpans, sessionID) /\ ErrorStep(sessionID, error))
          => /\ ErrorClosesUnit(sessionID)
             /\ error.present =>
                   /\ exported'[Len(exported')].error_name = error.name
                   /\ exported'[Len(exported')].error_message = error.message]_vars

\* session.error has ended a phase span and then a session span, both with
\* status ERROR, and the session span carries no error name
C26_ClosedWithoutErrorName ==
    /\ Len(exported) = 2
    /\ IsPhaseSpan(exported[1])
    /\ exported[1].status = "ERROR"
    /\ exported[1].cleanup_reason = ""
    /\ IsUnitSpan(exported[2])
    /\ exported[2].status = "ERROR"
    /\ exported[2].success = "false"
    /\ exported[2].cleanup_reason = ""
    /\ exported[2].error_name = ""

----------------------------------------------------------------------------
\* tool.execute.after for the call id
ToolEndStep(callID, tool) ==
    /\ nSpans' = nSpans
    /\ nCalls' = nCalls
    /\ now' = now
    /\ ToolExecuteAfter(callID, tool)

\* C28: a tool.execute.after for a call id that has no tool execution (the
\* cleanup has deleted it, the error path has ended it, or it was never
\* started) changes none of the Maps, so adds no duration to any aggregate,
\* and adds no event to any span.
C28_UnknownCallEndIsNoOp ==
    [][\A callID \in 1..TtlCalls, tool \in Tools :
          (~MapHas(toolExecutions, callID) /\ ToolEndStep(callID, tool))
          => /\ UNCHANGED <<sessionSpans, phaseSpans, toolExecutions,
                           pendingSubagentContext, spans, nSpans>>
             /\ exported' = << >>
             /\ misuse' = {}
             /\ ~threw']_vars

\* the cleanup has deleted the execution of a call whose session is still
\* open: no duration was added for it and its span has no end marker of it
C28_ReapedCallOfLiveSession ==
    /\ toolExecutions = << >>
    /\ \E i \in DOMAIN sessionSpans :
          LET unit == sessionSpans[i].v
          IN  /\ \E e \in spans[unit.span].events :
                    e.name = "cleanup.tool_ttl_expired" /\ e.callId = 1
              /\ unit.toolAggregate.executions = 1
              /\ unit.toolAggregate.totalDurationMs = 0
              /\ EndMarkers(spans, 1) = {}

\* the error path has ended a call, whose session is still open
C28_FailedCallOfLiveSession ==
    /\ toolExecutions = << >>
    /\ \E i \in DOMAIN sessionSpans :
          EndMarkers(spans, 1) = {<<sessionSpans[i].v.span, "tool.error">>}

----------------------------------------------------------------------------
\* C29: performTTLCleanup is idempotent: a second run right after a run, at
\* the same time, leaves the four Maps and all spans as the first left them
\* (it ends no span, writes to none, deletes no entry and does not throw).
C29_SweepIdempotent ==
    [][CleanupStep => performTTLCleanup(World)' = World']_vars

\* a run of the cleanup has ended the span of an expired session and has
\* kept a younger session, which carries the event of a tool execution a run
\* deleted, and a stored context that is not yet expired
C29_SweptSomeKeptSome ==
    /\ exported # << >>
    /\ \A i \in DOMAIN exported : exported[i].cleanup_reason = "ttl_expired"
    /\ pendingSubagentContext # << >>
    /\ toolExecutions = << >>
    /\ \E i \in DOMAIN sessionSpans :
          \E e \in spans[sessionSpans[i].v.span].events :
             e.name = "cleanup.tool_ttl_expired"

----------------------------------------------------------------------------
\* tool.execute.before of the session with the invocation, of the revision
\* that runs
StartStep(sessionID, call) ==
    /\ nCalls' = nCalls + 1
    /\ \/ ToolExecuteBefore841(Bounds, sessionID, call)
       \/ ToolExecuteBefore860(LazyBounds, sessionID, call)

NamesSubagent(call) ==
    call.tool = "task" /\ call.args.present /\ call.args.subagent_type # ""

\* after the step a context is stored under the id that holds the type and
\* the description of the invocation and the span context of the span the
\* id's record holds
HandoffHolds(sessionID, call) ==
    LET pending == MapGet(pendingSubagentContext', sessionID)
    IN  /\ MapHas(pendingSubagentContext', sessionID)
        /\ MapHas(sessionSpans', sessionID)
        /\ pending.subagentType = call.args.subagent_type
        /\ pending.taskDescription = call.args.description
        /\ pending.parentSessionId = sessionID
        /\ pending.parentSpanContext =
              SpanContextOf([spans |-> spans'], MapGet(sessionSpans', sessionID).span)
        /\ \A i \in DOMAIN pendingSubagentContext' :
              pendingSubagentContext'[i].k # sessionID
              => /\ MapHas(pendingSubagentContext, pendingSubagentContext'[i].k)
                 /\ MapGet(pendingSubagentContext, pendingSubagentContext'[i].k)
                       = pendingSubagentContext'[i].v

\* C30: a tool.execute.before of the task tool that names a subagent type
\* stores, under the id of the session that starts it, a context with that
\* type, the task description and the span context of the session's span; a
\* tool.execute.before of any other tool leaves pendingSubagentContext as it
\* is.
C30_TaskStartStoresHandoff ==
    [][\A sessionID \in SessionIds, call \in ToolCalls :
          StartStep(sessionID, call)
          => IF NamesSubagent(call)
             THEN HandoffHolds(sessionID, call)
             ELSE pendingSubagentContext' = pendingSubagentContext]_vars

\* the same of the sessions that have a record when the step is over
C30_TaskStartOfRecordedSession ==
    [][\A sessionID \in SessionIds, call \in ToolCalls :
          StartStep(sessionID, call)
          => IF NamesSubagent(call) /\ MapHas(sessionSpans', sessionID)
             THEN HandoffHolds(sessionID, call)
             ELSE pendingSubagentContext' = pendingSubagentContext]_vars

\* the same of revision 8.4.1 with invocations of any arguments: the task
\* tool without a subagent type, another tool with one
C30_OtherStartsStoreNothing ==
    [][\A sessionID \in SessionIds, call \in LongToolCalls :
          (/\ nCalls' = nCalls + 1
           /\ ToolExecuteBefore841(PreviewBounds, sessionID, call))
          => IF NamesSubagent(call) /\ MapHas(sessionSpans', sessionID)
             THEN HandoffHolds(sessionID, call)
             ELSE pendingSubagentContext' = pendingSubagentContext]_vars

----------------------------------------------------------------------------
\* the parentID has a stored context and the title names another type
TwoSignalsDisagree(session) ==
    /\ ParentHasHandoff(session)
    /\ TitleNamesSubagent(session)
    /\ extractSubagentTypeFromTitle(session.title)
          # MapGet(pendingSubagentContext, session.parentID).subagentType

\* C31: when the parentID of a session.created has a stored context and the
\* title names a different subagent type, the type and the span context of
\* the stored context are used: the record, the phase span and the agent span
\* get the stored type, and the phase span is a child of the stored context.
C31_HandoffBeforeTitle ==
    [][\A session \in SessionInfos :
          (TwoSignalsDisagree(session) /\ CreatedStep(session))
          => LET pending == MapGet(pendingSubagentContext, session.parentID)
                 phase == MapGet(phaseSpans', session.id)
                 unit == MapGet(sessionSpans', session.id)
             IN  /\ MapHas(phaseSpans', session.id)
                 /\ MapHas(sessionSpans', session.id)
                 /\ unit.agentType = pending.subagentType
                 /\ phase.agentType = pending.subagentType
                 /\ unit.phase = getPhaseForAgent(pending.subagentType)
                 /\ spans'[unit.span].attrs.agent_type = pending.subagentType
                 /\ spans'[phase.span].attrs.agent_type = pending.subagentType
                 /\ spans'[phase.span].traceId = pending.parentSpanContext.traceId
                 /\ spans'[phase.span].parentSpanId = pending.parentSpanContext.spanId]_vars

\* a session whose title names the planner is open as a worker, the type of
\* the context its session.created found stored, in the trace of its parent
C31_TitledPlannerOpenAsWorker ==
    \E i \in DOMAIN sessionSpans :
       LET unit == sessionSpans[i].v
       IN  /\ unit.span \in DOMAIN spans
           /\ extractSubagentTypeFromTitle(spans[unit.span].attrs.title) = "planner"
           /\ unit.agentType = "worker"
           /\ spans[unit.span].attrs.task_description # ""
           /\ spans[unit.span].name = <<"agent", "worker">>

----------------------------------------------------------------------------
\* a step of tool activity: tool.execute.before, tool.execute.after,
\* message.part.updated or a run of the cleanup before any session expires
ToolActivityStep ==
    \/ \E sessionID \in SessionIds, call \in ToolCalls : StartStep(sessionID, call)
    \/ \E callID \in 1..MaxCalls, tool \in Tools : ToolEndStep(callID, tool)
    \/ /\ nSpans' = nSpans /\ nCalls' = nCalls /\ now' = now
       /\ \E part \in Parts(Bounds) : MessagePartUpdated(part)
    \/ CleanupStep

\* the span is the root span 8.6.0 makes on demand for a session without a
\* record
IsLazyUnit(sp) == sp.name = <<"session", "main">> /\ sp.attrs.lazy_created

\* C32 as stated: tool start, tool end, tool error and the cleanup of a tool
\* execution start no span and end no span.
C32_ToolActivityLeavesSpans ==
    [][ToolActivityStep
       => /\ nSpans' = nSpans
          /\ DOMAIN spans' = DOMAIN spans
          /\ exported' = << >>]_vars

\* C32: tool activity makes no span of its own: a step of it ends no span,
\* and starts none but the session span 8.6.0 makes on demand for the id of
\* a tool.execute.before that has no record; every span is a session, agent
\* or phase span.
C32_NoSpanOfATool ==
    [][ToolActivityStep
       => /\ exported' = << >>
          /\ DOMAIN spans \subseteq DOMAIN spans'
          /\ \A id \in DOMAIN spans' :
                /\ IsUnitSpan(spans'[id]) \/ IsPhaseSpan(spans'[id])
                /\ id \notin DOMAIN spans
                   => /\ version = "8.6.0"
                      /\ nCalls' = nCalls + 1
                      /\ IsLazyUnit(spans'[id])
                      /\ ~MapHas(sessionSpans, spans'[id].sessionId)
                      /\ MapHas(sessionSpans', spans'[id].sessionId)
                      /\ nSpans' = nSpans + 1]_vars

\* the one span ever started is the session span 8.6.0 made on demand for
\* a tool start, and it carries the tool's start and end events
C32_MarkersOnLazyUnit ==
    /\ version = "8.6.0"
    /\ nSpans = 1
    /\ 1 \in DOMAIN spans
    /\ IsLazyUnit(spans[1])
    /\ \E e \in spans[1].events : e.name = "tool.start"
    /\ \E e \in spans[1].events : e.name = "tool.end"

\* the one span ever started in 8.4.1 is open and carries the start of a
\* tool and the event of the cleanup that deleted its execution
C32_ReapedMarkerOnOnlySpan ==
    /\ version = "8.4.1"
    /\ nSpans = 1
    /\ 1 \in DOMAIN spans
    /\ \E e \in spans[1].events : e.name = "tool.start"
    /\ \E e \in spans[1].events : e.name = "cleanup.tool_ttl_expired"

----------------------------------------------------------------------------
\* C33: without HONEYCOMB_API_KEY the plugin is disabled: it gives the host
\* no hook, the interval timer is not set, and the four Maps stay empty (and
\* no span is started) whatever the host sends.
C33_DisabledWithoutKey ==
    ~HONEYCOMB_API_KEY
    => /\ Hooks = {}
       /\ ~cleanupInterval
       /\ sessionSpans = << >>
       /\ phaseSpans = << >>
       /\ toolExecutions = << >>
       /\ pendingSubagentContext = << >>
       /\ nSpans = 0
       /\ spans = << >>

\* the host has run all its tools and the clock has passed every TTL and
\* cleanup interval, without the key
C33_HostBusyWithoutKey ==
    /\ ~HONEYCOMB_API_KEY
    /\ nCalls = NoKeyCalls
    /\ now > SESSION_TTL_MS

----------------------------------------------------------------------------
\* the span of a record the cleanup keeps is as open as it was, with the
\* status it had, and is not among the spans the cleanup ended
SpanUntouched(id) ==
    /\ id \in DOMAIN spans
       => /\ id \in DOMAIN spans'
          /\ spans'[id].status = spans[id].status
          /\ spans'[id].attrs.cleanup_reason = spans[id].attrs.cleanup_reason
    /\ \A j \in 1..Len(exported') : exported'[j].id # id

\* the entries of a Map the cleanup finds no older than the TTL are in the
\* Map after the run, with the value they had
YoungKept(table, after, ttl) ==
    \A i \in 1..Len(table) :
       LET e == table[i]
           t == IF "createdAt" \in DOMAIN e.v THEN e.v.createdAt ELSE e.v.startTime
       IN  now - t <= ttl => MapHas(after, e.k) /\ MapGet(after, e.k) = e.v

YoungSpansUntouched(table, ttl) ==
    \A i \in 1..Len(table) :
       now - table[i].v.startTime <= ttl => SpanUntouched(table[i].v.span)

\* C34: a run of the cleanup keeps every entry that is not older than the TTL
\* of its Map (SESSION_TTL_MS for sessionSpans and phaseSpans,
\* PENDING_CONTEXT_TTL_MS for pendingSubagentContext, TOOL_TTL_MS for
\* toolExecutions), an entry exactly that old included, with the value it
\* had, and neither ends the span of such a session or phase nor changes its
\* status.
C34_YoungRecordsUntouched ==
    [][CleanupStep
       => /\ YoungKept(sessionSpans, sessionSpans', SESSION_TTL_MS)
          /\ YoungKept(phaseSpans, phaseSpans', SESSION_TTL_MS)
          /\ YoungKept(pendingSubagentContext, pendingSubagentContext',
                       PENDING_CONTEXT_TTL_MS)
          /\ YoungKept(toolExecutions, toolExecutions', TOOL_TTL_MS)
          /\ YoungSpansUntouched(sessionSpans, SESSION_TTL_MS)
          /\ YoungSpansUntouched(phaseSpans, SESSION_TTL_MS)]_vars

\* a run of the cleanup has ended the span of a session older than the TTL
\* and left a session exactly SESSION_TTL_MS old in the Map, its span open,
\* without status and without cleanup reason
C34_KeptAtSessionTTL ==
    /\ \E j \in 1..Len(exported) : exported[j].cleanup_reason = "ttl_expired"
    /\ \E i \in 1..Len(sessionSpans) :
          LET sessionData == sessionSpans[i].v
          IN  /\ now - sessionData.startTime = SESSION_TTL_MS
              /\ sessionData.span \in DOMAIN spans
              /\ spans[sessionData.span].status = "UNSET"
              /\ spans[sessionData.span].attrs.cleanup_reason = ""

\* a stored context exactly PENDING_CONTEXT_TTL_MS old and a tool execution
\* exactly TOOL_TTL_MS old are in their Maps after a run of the cleanup that
\* deleted an older tool execution
C34_KeptAtOwnTTL ==
    /\ \E i \in 1..Len(pendingSubagentContext) :
          now - pendingSubagentContext[i].v.createdAt = PENDING_CONTEXT_TTL_MS
    /\ \E i \in 1..Len(sessionSpans) :
          \E e \in spans[sessionSpans[i].v.span].events :
             e.name = "cleanup.tool_ttl_expired"

----------------------------------------------------------------------------
\* the stored context or the tool execution is gone after the step
HandoffRemoved(sessionID) ==
    MapHas(pendingSubagentContext, sessionID)
    /\ ~MapHas(pendingSubagentContext', sessionID)
ExecutionRemoved(callID) ==
    MapHas(toolExecutions, callID) /\ ~MapHas(toolExecutions', callID)

\* C35: a session.idle or session.error that deletes the record of a session
\* leaves pendingSubagentContext and toolExecutions as they are: no step that
\* deletes the record and changes one of the two Maps is an idle or an error
\* of the session, so the context the session stored and its tool executions
\* in flight are still there.
C35_CloseKeepsHandoffAndExecutions ==
    [][\A sessionID \in SessionIds :
          (/\ MapHas(sessionSpans, sessionID)
           /\ ~MapHas(sessionSpans', sessionID)
           /\ \/ pendingSubagentContext' # pendingSubagentContext
              \/ toolExecutions' # toolExecutions)
          => ~IdleOrErrorStep(sessionID)]_vars

\* a stored context goes only with a session.created for a child of its id or
\* with a run of the cleanup that finds it expired; a tool execution only with
\* the tool.execute.after or the error part of its call id or with a run of
\* the cleanup that finds it expired
C35_RemovedOnlyByConsumer ==
    [][/\ \A sessionID \in SessionIds :
             HandoffRemoved(sessionID)
             => \/ \E session \in SessionInfos :
                      session.parentID = sessionID /\ CreatedStep(session)
                \/ /\ CleanupStep
                   /\ pendingExpired(MapGet(pendingSubagentContext, sessionID).createdAt)
       /\ \A callID \in 1..MaxCalls :
             ExecutionRemoved(callID)
             => \/ \E tool \in Tools : ToolEndStep(callID, tool)
                \/ \E part \in Parts(Bounds) :
                      part.callID = callID /\ MessagePartUpdated(part)
                \/ /\ CleanupStep
                   /\ toolExpired(MapGet(toolExecutions, callID).startTime)]_vars

\* the span of a session was just ended by idle or error, and the context it
\* stored and a tool execution it started are in their Maps
C35_ClosedWithHandoffAndExecution ==
    \E j \in 1..Len(exported) :
        LET sessionID == exported[j].sessionId
        IN  /\ IsUnitSpan(exported[j])
            /\ exported[j].success # "unset"
            /\ ~MapHas(sessionSpans, sessionID)
            /\ MapHas(pendingSubagentContext, sessionID)
            /\ MapGet(pendingSubagentContext, sessionID).parentSessionId = sessionID
            /\ \E i \in 1..Len(toolExecutions) :
                  toolExecutions[i].v.sessionID = sessionID

----------------------------------------------------------------------------
\* a task call of u1, and a session.created, of the revision that runs
PairStartStep(call) ==
    /\ nCalls' = nCalls + 1
    /\ \/ ToolExecuteBefore841(PairBounds, "u1", call)
       \/ ToolExecuteBefore860(PairLazyBounds, "u1", call)

PairCreatedStep(session) ==
    /\ nSpans' > nSpans
    /\ nCalls' = nCalls
    /\ \/ SessionCreated841(PairBounds, session)
       \/ SessionCreated860(PairLazyBounds, session)

\* no span of a child was started yet (the spans of children stay open)
NoChildYet == \A id \in DOMAIN spans : spans[id].sessionId = "u1"

\* what a span or a stored context says of the task, as the preview of a
\* tool execution has it
TaskOf(type, description) == type \o ": " \o description

\* the unit spans of children that carry the type and description of the
\* last task call
CarriersOfLastCall(open) ==
    {id \in DOMAIN open :
        /\ open[id].sessionId \in PairChildren
        /\ IsUnitSpan(open[id])
        /\ MapHas(toolExecutions, PairCalls)
        /\ TaskOf(open[id].attrs.agent_type, open[id].attrs.task_description)
              = MapGet(toolExecutions, PairCalls).argsPreview}

\* the session.created of a child reads the context stored under u1, deletes
\* it, and gives its span the type and description of the last task call
FirstConsumes(session) ==
    /\ MapHas(pendingSubagentContext, "u1")
    /\ ~MapHas(pendingSubagentContext', "u1")
    /\ \E id \in CarriersOfLastCall(spans') :
          id \in StartedSpans /\ spans'[id].sessionId = session.id

\* the session.created of a child finds no context: no span it starts has a
\* task description
FindsNone(session) ==
    /\ ~MapHas(pendingSubagentContext, "u1")
    /\ pendingSubagentContext' = pendingSubagentContext
    /\ \A id \in StartedSpans : spans'[id].attrs.task_description = ""

UniqueKeys(table) ==
    \A i, j \in 1..Len(table) : table[i].k = table[j].k => i = j

\* the two task calls differ, so that a span that carries the type and
\* description of the second was started after it
CallsDiffer ==
    /\ MapHas(toolExecutions, 1)
    /\ MapHas(toolExecutions, PairCalls)
    /\ MapGet(toolExecutions, 1).argsPreview
          # MapGet(toolExecutions, PairCalls).argsPreview

\* the child created first after the two task calls consumes, the one created
\* after it finds none
PairOfChildren(session) ==
    IF NoChildYet THEN FirstConsumes(session)
    ELSE (CallsDiffer /\ CarriersOfLastCall(spans) # {}) => FindsNone(session)

\* C36: pendingSubagentContext has at most one entry for an id; when u1 has
\* started the task tool twice before any child was created, the
\* session.created of the first child with parentID u1 consumes a stored
\* context, which is that of the second call, and the session.created of a
\* child after it finds none.
C36_OnlyFirstChildConsumes ==
    [][/\ UniqueKeys(pendingSubagentContext')
       /\ \A session \in PairSessionInfos :
             (/\ session.id \in PairChildren
              /\ nCalls = PairCalls
              /\ PairCreatedStep(session))
             => PairOfChildren(session)]_vars

\* the same of two task calls that both found a record of u1
C36_OfRecordedDispatcher ==
    [][/\ UniqueKeys(pendingSubagentContext')
       /\ \A call \in PairToolCalls :
             (MapHas(sessionSpans, "u1") /\ PairStartStep(call))
             => LET pending == MapGet(pendingSubagentContext', "u1")
                IN  /\ MapHas(pendingSubagentContext', "u1")
                    /\ pending.subagentType = call.args.subagent_type
                    /\ pending.taskDescription = call.args.description
                    /\ MapKeys(pendingSubagentContext') = {"u1"}
       /\ \A session \in PairSessionInfos :
             (/\ session.id \in PairChildren
              /\ nCalls = PairCalls
              /\ MapHas(toolExecutions, 1)
              /\ MapHas(toolExecutions, PairCalls)
              /\ PairCreatedStep(session))
             => PairOfChildren(session)]_vars

\* the same of revision 8.6.0, whatever u1 has a record of
C36_OfLazyDispatcher ==
    [][\A session \in PairSessionInfos :
          (/\ version = "8.6.0"
           /\ session.id \in PairChildren
           /\ nCalls = PairCalls
           /\ PairCreatedStep(session))
          => PairOfChildren(session)]_vars

\* u1 has started the task tool twice, for a worker and for a reviewer; the
\* span of one child carries the type and description of the second call,
\* the span of the other child, started after it, carries no description,
\* and no context is stored
C36_SecondChildFoundNone ==
    /\ pendingSubagentContext = << >>
    /\ CallsDiffer
    /\ \E a \in CarriersOfLastCall(spans), b \in DOMAIN spans :
          /\ a < b
          /\ IsUnitSpan(spans[b])
          /\ spans[b].sessionId \in PairChildren \ {spans[a].sessionId}
          /\ spans[b].attrs.task_description = ""

----------------------------------------------------------------------------
\* C37: no handler and no run of the cleanup, in any order, calls addEvent,
\* setAttributes or setStatus on a span that has ended: the tool events, the
\* cleanup events and the final attributes all go to open spans.
C37_NoWriteAfterEnd == "write" \notin misuse

\* the span a step writes to was open before the step or is started in it,
\* and a span that has ended is not open again
C37_WritesGoToOpenSpans ==
    [][\A id \in DOMAIN spans' :
          /\ id \in DOMAIN spans \/ id \in StartedSpans
          /\ id \in DOMAIN spans /\ spans'[id] # spans[id]
             => id \notin {exported'[j].id : j \in 1..Len(exported')}]_vars

\* a run of the cleanup has just ended the span of an expired session, and
\* the span of another session is open and carries the start event of a tool
\* and the cleanup event of its execution
C37_BreadcrumbBesideEndedSpan ==
    /\ \E j \in 1..Len(exported) :
          /\ exported[j].cleanup_reason = "ttl_expired"
          /\ IsUnitSpan(exported[j])
    /\ \E i \in 1..Len(sessionSpans) :
          LET sp == spans[sessionSpans[i].v.span]
          IN  /\ \E e \in sp.events : e.name = "tool.start"
              /\ \E e \in sp.events : e.name = "cleanup.tool_ttl_expired"

----------------------------------------------------------------------------
\* message.part.updated
PartStep(part) ==
    /\ nSpans' = nSpans
    /\ nCalls' = nCalls
    /\ now' = now
    /\ MessagePartUpdated(part)

\* the call has a tool execution whose session has no record
IsOrphanExecution(callID) ==
    /\ MapHas(toolExecutions, callID)
    /\ ~MapHas(sessionSpans, MapGet(toolExecutions, callID).sessionID)

\* C38: a message.part.updated with status error for a call whose tool
\* execution belongs to a session without a record changes nothing: no error
\* is pushed, no event added, and the execution stays; a tool.execute.after
\* for such a call deletes the execution and changes no record and no span;
\* and such an execution leaves toolExecutions only with that
\* tool.execute.after or with a run of the cleanup that finds it older than
\* TOOL_TTL_MS.
C38_OrphanErrorKeepsExecution ==
    [][\A callID \in 1..TtlCalls :
          IsOrphanExecution(callID)
          => /\ \A part \in Parts(TtlBounds) :
                   (/\ part.callID = callID
                    /\ part.state.present
                    /\ part.state.status = "error"
                    /\ PartStep(part))
                   => /\ UNCHANGED <<toolExecutions, sessionSpans, phaseSpans,
                                     pendingSubagentContext, spans>>
                      /\ exported' = << >>
                      /\ ~threw'
             /\ \A tool \in Tools :
                   ToolEndStep(callID, tool)
                   => /\ toolExecutions' = MapDelete(toolExecutions, callID)
                      /\ UNCHANGED <<sessionSpans, phaseSpans,
                                     pendingSubagentContext, spans>>
                      /\ exported' = << >>
             /\ ~MapHas(toolExecutions', callID)
                => \/ \E tool \in Tools : ToolEndStep(callID, tool)
                   \/ /\ CleanupStep
                      /\ toolExpired(MapGet(toolExecutions, callID).startTime)]_vars

\* the tool execution of a session that was closed is in its Map, next to
\* the record of another session, after a handler that ended no span
C38_OrphanBesideLiveSession ==
    /\ exported = << >>
    /\ sessionSpans # << >>
    /\ \E callID \in 1..TtlCalls : IsOrphanExecution(callID)

----------------------------------------------------------------------------
\* the tool.start events of a span
StartEvents(sp) == {e \in sp.events : e.name = "tool.start"}

\* the aggregate of a record: the counter of executions is the sum of the
\* counts by tool name, and the sequence numbers on the record's span are
\* numbers the counter has passed, each given to one call
AggregateAgrees(sessionData, open) ==
    LET agg == sessionData.toolAggregate
        starts == StartEvents(open[sessionData.span])
    IN  /\ agg.executions = totalToolCount(agg.counts)
        /\ \A e \in starts : e.seq \in 1..agg.executions
        /\ \A e, f \in starts : e.seq = f.seq => e.callId = f.callId

\* C39: in every state, after every step, the aggregate of every session
\* record has executions equal to the sum of its counts by tool name, every
\* sequence number on the record's span is one the counter has passed, and
\* the number given to the call a tool.execute.before has just stored is the
\* value of the counter, the highest number given so far.
C39_CountsAndSequenceAgree ==
    [][\A i \in 1..Len(sessionSpans') :
          LET sessionID == sessionSpans'[i].k
              sessionData == sessionSpans'[i].v
          IN  /\ AggregateAgrees(sessionData, spans')
              /\ (/\ nCalls' = nCalls + 1
                  /\ MapHas(toolExecutions', nCalls')
                  /\ MapGet(toolExecutions', nCalls').sessionID = sessionID)
                 => MapGet(toolExecutions', nCalls').sequenceNumber
                       = sessionData.toolAggregate.executions]_vars

\* a session has started the same tool twice: its count is 2, the counter is
\* 2, and the second execution has the number 2, after the first has ended
\* with an error
C39_SecondStartAfterError ==
    \E i \in 1..Len(sessionSpans) :
        LET agg == sessionSpans[i].v.toolAggregate
        IN  /\ agg.executions = 2
            /\ Len(agg.counts) = 1
            /\ Len(agg.errors) = 1
            /\ MapHas(toolExecutions, 2)
            /\ MapGet(toolExecutions, 2).sequenceNumber = 2

----------------------------------------------------------------------------
\* the session:main spans a step starts, by session.created or on demand
MainStarts == {id \in StartedSpans : spans'[id].name = <<"session", "main">>}

\* mainSessionId is the id of the session:main span started last: a step
\* that starts one sets it to that span's session id, and no other step
\* changes it
PointerFollowsRoots ==
    /\ \A id \in MainStarts : mainSessionId' = spans'[id].sessionId
    /\ mainSessionId' # mainSessionId => MainStarts # {}

\* a session.created without parentID whose title names a subagent
TitledOrphans ==
    {session \in SessionInfos :
        session.parentID = "" /\ extractSubagentTypeFromTitle(session.title) # ""}

\* the phase span of such a session hangs under the span of the record of
\* mainSessionId, which is made on demand if there is none; with no
\* mainSessionId the phase span has no parent and no record is made
AttachesToPointer(session) ==
    LET phase == CHOOSE id \in StartedSpans : IsPhaseSpan(spans'[id])
    IN  /\ \E id \in StartedSpans : IsPhaseSpan(spans'[id])
        /\ spans'[phase].sessionId = session.id
        /\ mainSessionId' = mainSessionId
        /\ spans'[phase].attrs.parent_id = mainSessionId
        /\ IF mainSessionId = ""
           THEN /\ spans'[phase].parentSpanId = 0
                /\ spans'[phase].traceId = phase
                /\ MainStarts = {}
           ELSE IF MapHas(sessionSpans, mainSessionId)
           THEN /\ spans'[phase].parentSpanId = MapGet(sessionSpans, mainSessionId).span
                /\ MainStarts = {}
           ELSE /\ MainStarts = {phase - 1}
                /\ spans'[phase - 1].sessionId = mainSessionId
                /\ spans'[phase - 1].attrs.lazy_created
                /\ spans'[phase].parentSpanId = phase - 1
                /\ session.id # mainSessionId
                   => /\ MapHas(sessionSpans', mainSessionId)
                      /\ MapGet(sessionSpans', mainSessionId).span = phase - 1

\* C40: in 8.6.0 mainSessionId is the session id of the session:main span
\* started last, by a session.created of a session that is no subagent or on
\* demand, and no step that starts none changes it, so that it keeps the id
\* when the session is closed and is empty only while no session:main span
\* was ever started; a session.created without parentID whose title names a
\* subagent puts its phase span under the span of the record of that id,
\* which it makes anew if the record is gone, and starts the phase span
\* without parent only if mainSessionId is empty.
C40_PointerNamesLastRoot ==
    [][version = "8.6.0"
       => /\ PointerFollowsRoots
          /\ \A session \in TitledOrphans :
                (/\ nSpans' > nSpans
                 /\ nCalls' = nCalls
                 /\ SessionCreated860(LazyBounds, session))
                => AttachesToPointer(session)]_vars

\* while mainSessionId is empty no session:main span is open and every record
\* is that of a subagent
C40_EmptyPointerNoRoot ==
    (version = "8.6.0" /\ mainSessionId = "")
    => /\ \A id \in DOMAIN spans : spans[id].name # <<"session", "main">>
       /\ \A i \in 1..Len(sessionSpans) : sessionSpans[i].v.agentType # ""
       /\ \A j \in 1..Len(exported) : exported[j].name # <<"session", "main">>

\* the first session:main span was ended, mainSessionId still names a
\* session, whose record holds a span made on demand, and the phase span of
\* a session whose title names a subagent hangs under that span
C40_AttachedToRemadeRoot ==
    /\ version = "8.6.0"
    /\ nCalls = 0
    /\ mainSessionId # ""
    /\ 1 \notin DOMAIN spans
    /\ MapHas(sessionSpans, mainSessionId)
    /\ LET root == MapGet(sessionSpans, mainSessionId).span
       IN  /\ spans[root].attrs.lazy_created
           /\ \E id \in DOMAIN spans :
                 /\ IsPhaseSpan(spans[id])
                 /\ spans[id].parentSpanId = root
                 /\ spans[id].attrs.parent_id = mainSessionId
                 /\ spans[id].sessionId # mainSessionId

\* the phase span of a session whose title names a subagent has no parent:
\* mainSessionId is empty
C40_BuiltWithoutParent ==
    /\ version = "8.6.0"
    /\ mainSessionId = ""
    /\ \E id \in DOMAIN spans :
          IsPhaseSpan(spans[id]) /\ spans[id].parentSpanId = 0

====
